---- MODULE Spec2Model ----
(***************************************************************************)
(* Telemetry cache (ROS2TopicSubscriber) and log-tailing session of talos. *)
(*                                                                         *)
(* Part 1 models system_manager/plugins/ros2_topic_subscriber.py: the      *)
(* per-container plugin with its subscriber dict, its message cache, the   *)
(* status-check thread and the start/stop lifecycle.                       *)
(* Part 2 models the log-tailing WebSocket session of                      *)
(* talos/routers/websocket.py against the agent's log endpoint of          *)
(* talos/agent/routers/logs.py.                                            *)
(*                                                                         *)
(* Time is counted in whole seconds.  Optional values (Python's None) are  *)
(* sets with at most one element: None is {} and a value v is {v}.         *)
(***************************************************************************)
EXTENDS Integers, Sequences, FiniteSets, TLC

\* ---------------------------------------------------------------- bounds
\* Last instant of the clock.
MaxTime == 12
\* Message payloads are 1..MaxVal.
MaxVal == 2
\* A clock value read before the cache lock is taken is at most this old
\* when the critical section runs.
MaxLag == 1
\* Status-check threads that may be alive at once.
MaxThreads == 2
\* Last instant of the clock where the status thread is followed through
\* its sweeps.
MaxSweepTime == 15
\* Last whole second of the clock of a topic-polling session.
MaxTopicTime == 5
\* Clock readings within one second that a topic-polling session is followed
\* through: the first MaxTenth + 1 tenths.
MaxTenth == 1
\* Bytes ever written to the log file.
MaxBytes == 3

\* ------------------------------------------------------ program constants
DYNAMIC_TOPIC_STALE_TIME == 3
STATUS_CHECK_INTERVAL == 10
\* timeout of self._status_thread.join(timeout=2.0)
JOIN_TIMEOUT == 2

\* websocket.py: lines of the initial tail fetch.
INITIAL_LOG_TAIL == 100
\* SERVICE_STATUS_CHECK_INTERVAL / LOG_POLL_INTERVAL (1.0 s / 0.5 s): after this
\* many poll sleeps the service status is checked again at the latest.
PollsPerStatusCheck == 2

\* websocket.py: ROS2_TOPIC_MAX_SEND_RATE, messages per second and topic.
ROS2_TOPIC_MAX_SEND_RATE == 10
\* The topic-polling session counts time in ticks of 1/ROS2_TOPIC_MAX_SEND_RATE
\* seconds, so that min_interval = 1.0 / ROS2_TOPIC_MAX_SEND_RATE is one tick.
TicksPerSecond == ROS2_TOPIC_MAX_SEND_RATE
min_interval == TicksPerSecond \div ROS2_TOPIC_MAX_SEND_RATE
\* `-1`, stored in last_sent_data_hash after an unavailable status was sent.
UnavailableSent == 0 - 1

\* time.time() of the first instant: epoch seconds, hence positive.
T0 == 1

None == {}
Some(v) == {v}
TheValue(o) == CHOOSE v \in o : TRUE

Max(a, b) == IF a >= b THEN a ELSE b
Min(a, b) == IF a <= b THEN a ELSE b

\* ------------------------------------------------------------ configuration
\* Topic names; TopicOrder is the order in which the configuration dicts
\* list them (dict iteration order).
TopicOrder == <<"x", "y", "z">>
TopicNames == {TopicOrder[i] : i \in 1..Len(TopicOrder)}
\* A name that is never configured, for reads of unknown topics.
Unconfigured == "u"

\* ros2.topics / ros2.static_topics of a container: name -> message type.
\* The two dicts of one configuration are disjoint.
MsgTypeOf(t) == IF t = "z" THEN "std_msgs/msg/String" ELSE "sensor_msgs/msg/JointState"
TopicDict(S) == [t \in S |-> MsgTypeOf(t)]
ConfigsCache == {[topics |-> TopicDict({"x"}), static_topics |-> TopicDict({"z"})]}
ConfigsLife ==
    {[topics |-> TopicDict(D), static_topics |-> TopicDict(S)] :
        D \in SUBSET {"x", "y"}, S \in SUBSET {"z"}}

\* Messages delivered by the middleware: an object with one public
\* attribute and one private one (name starting with "_").
Msgs == [data : 1..MaxVal, hidden : {0}]

VARIABLES
    now,            \* time.time()
    topics,         \* self.topics (dynamic)
    static_topics,  \* self.static_topics
    subscribers,    \* keys of self.subscribers
    live,           \* topics with a subscription still delivering callbacks
    msg_cache,      \* self.msg_cache: topic -> [raw_message, received_at]
    is_running,     \* self.is_running
    threads,        \* the status-check threads: id -> [pc, since]
    status_thread,  \* self._status_thread: Some(id) or None
    stop_pc,        \* position of the caller inside stop()
    join_from,      \* when stop() began to join the status thread
    stale_reads,    \* history: topics whose last read evicted a stale entry, no put since
    ret             \* outcome of the last operation

VARIABLES
    log_exists,         \* /var/log/<service>/current exists
    log_content,        \* its bytes, each named by the order in which it was written
    next_byte,          \* name of the next byte written
    truncated_ever,     \* history: the file was truncated or removed at some time
    ws_pc,              \* position of websocket_service_logs
    cursor,             \* its cursor: None or Some(offset)
    tail_logs,          \* output of the agent's tail command, before it stats the file
    service_is_up,      \* result of the last service status check
    log_service_is_up,
    polls_since_check,  \* poll sleeps since last_service_status_check
    sent_initial,       \* history: bytes sent as the initial tail
    sent_updates,       \* history: bytes sent as incremental updates
    resent,             \* history: bytes sent when they had been sent before
    early_bytes,        \* history: bytes in the file when the initial fetch returned
    last_fetch          \* history: the last cursor request and the agent's response

VARIABLES
    tenths,               \* time.time(): tenths of a second past `now`
    ts_pc,                \* position of websocket_ros2_topic_data
    ts_topic,             \* its topic
    last_send_time,       \* its throttling state, in ticks
    last_sent_data_hash,  \* None, Some(hash) or Some(UnavailableSent)
    ts_current_time,      \* current_time of the poll under way
    ts_cached,            \* cached_data of the poll (or initial send) under way
    ts_pass,              \* history: how the last pass of the polling loop ended
    ts_fail,              \* history: a send on this connection has failed
    ts_out                \* history: the last send attempted on the connection

VARIABLES
    lock,   \* self.lock: None when free, Some(thread) when held
    cs      \* thread -> where it is in an operation on the cache

logVars == <<log_exists, log_content, next_byte, truncated_ever, ws_pc, cursor, tail_logs,
             service_is_up, log_service_is_up, polls_since_check, sent_initial,
             sent_updates, resent, early_bytes, last_fetch>>

compVars == <<now, topics, static_topics, subscribers, live, msg_cache, is_running,
              threads, status_thread, stop_pc, join_from, stale_reads, ret>>

topicVars == <<tenths, ts_pc, ts_topic, last_send_time, last_sent_data_hash,
               ts_current_time, ts_cached, ts_pass, ts_fail, ts_out>>

VARIABLES
    app_pc,           \* lifespan(): "startup", "serving", "shutdown" or "down"
    app_todo,         \* the containers the loop under way has yet to visit
    ros2_containers,  \* the containers whose configuration has a ros2 section
    ros2_plugins,     \* _ros2_plugins: the registered containers, in insertion order
    plugin_state      \* history: what became of each container's plugin

lockVars == <<lock, cs>>

appVars == <<app_pc, app_todo, ros2_containers, ros2_plugins, plugin_state>>

\* What the operations of one part leave alone of the other parts.
nonPluginVars == <<logVars, topicVars, lockVars, appVars>>
nonLogVars == <<compVars, topicVars, lockVars, appVars>>

NoRet == [op |-> "none"]

Configured == DOMAIN topics \cup DOMAIN static_topics

\* The configured names in configuration order.
InOrder(S) == SelectSeq(TopicOrder, LAMBDA t : t \in S)

SeqToSet(q) == {q[i] : i \in 1..Len(q)}

Remove(cache, t) == [k \in DOMAIN cache \ {t} |-> cache[k]]

\* ------------------------------------------------------------------ helpers

\* _convert_message_to_dict: the public attributes of the message.
ConvertMessageToDict(msg) == [data |-> msg.data]

\* get_topic_data with the staleness test written `>=`.
GetTopicDataStaleAtThreshold(cache, dyn, topic, t) ==
    IF topic \notin DOMAIN cache
    THEN [cache |-> cache, result |-> None, stale |-> FALSE]
    ELSE LET cached == cache[topic]
             age == t - cached.received_at
         IN IF topic \in dyn /\ age >= DYNAMIC_TOPIC_STALE_TIME
            THEN [cache |-> Remove(cache, topic), result |-> None, stale |-> TRUE]
            ELSE [cache |-> cache,
                  result |-> Some([data |-> [data |-> cached.raw_message.data],
                                   received_at |-> cached.received_at]),
                  stale |-> FALSE]

\* get_topic_data applying the staleness test to every topic, static ones
\* included.
GetTopicDataEvictsStatic(cache, dyn, topic, t) ==
    IF topic \notin DOMAIN cache
    THEN [cache |-> cache, result |-> None, stale |-> FALSE]
    ELSE LET cached == cache[topic]
             age == t - cached.received_at
         IN IF age > DYNAMIC_TOPIC_STALE_TIME
            THEN [cache |-> Remove(cache, topic), result |-> None, stale |-> TRUE]
            ELSE [cache |-> cache,
                  result |-> Some([data |-> [data |-> cached.raw_message.data],
                                   received_at |-> cached.received_at]),
                  stale |-> FALSE]

\* get_topic_data, inside the lock, at clock value t.
GetTopicData(cache, dyn, topic, t) ==
    IF topic \notin DOMAIN cache
    THEN [cache |-> cache, result |-> None, stale |-> FALSE]
    ELSE LET cached == cache[topic]
             age == t - cached.received_at
         IN IF topic \in dyn /\ age > DYNAMIC_TOPIC_STALE_TIME
            THEN [cache |-> Remove(cache, topic), result |-> None, stale |-> TRUE]
            ELSE [cache |-> cache,
                  result |-> Some([data |-> ConvertMessageToDict(cached.raw_message),
                                   received_at |-> cached.received_at]),
                  stale |-> FALSE]

\* is_topic_available with the staleness test written `>=`.
IsTopicAvailableStaleAtThreshold(cache, dyn, stat, topic, t) ==
    IF topic \notin dyn /\ topic \notin stat
    THEN [cache |-> cache, result |-> FALSE, stale |-> FALSE]
    ELSE IF topic \notin DOMAIN cache
    THEN [cache |-> cache, result |-> FALSE, stale |-> FALSE]
    ELSE IF topic \in dyn /\ t - cache[topic].received_at >= DYNAMIC_TOPIC_STALE_TIME
    THEN [cache |-> Remove(cache, topic), result |-> FALSE, stale |-> TRUE]
    ELSE [cache |-> cache, result |-> TRUE, stale |-> FALSE]

\* is_topic_available, inside the lock, at clock value t.
IsTopicAvailable(cache, dyn, stat, topic, t) ==
    IF topic \notin dyn /\ topic \notin stat
    THEN [cache |-> cache, result |-> FALSE, stale |-> FALSE]
    ELSE IF topic \notin DOMAIN cache
    THEN [cache |-> cache, result |-> FALSE, stale |-> FALSE]
    ELSE IF topic \in dyn /\ t - cache[topic].received_at > DYNAMIC_TOPIC_STALE_TIME
    THEN [cache |-> Remove(cache, topic), result |-> FALSE, stale |-> TRUE]
    ELSE [cache |-> cache, result |-> TRUE, stale |-> FALSE]

\* The record of a dynamic topic with the staleness test written `<`: an
\* entry exactly as old as the stale time counts as stale.
DynamicStatusStaleAtThreshold(cache, subs, types, topic, t) ==
    LET has == topic \in DOMAIN cache
        r == IF has THEN cache[topic].received_at ELSE 0
        fresh == has /\ (r > 0 => t - r < DYNAMIC_TOPIC_STALE_TIME)
    IN [configured |-> TRUE,
        available |-> fresh,
        msg_type |-> types[topic],
        subscribed |-> topic \in subs,
        received_at |-> IF has THEN Some(r) ELSE None,
        seconds_since_last_message |-> IF fresh /\ r > 0 THEN Some(t - r) ELSE None]

\* One record of get_all_topics_status for a dynamic topic; t is the clock
\* value read before the lock was taken.
DynamicStatus(cache, subs, types, topic, t) ==
    LET has == topic \in DOMAIN cache
        r == IF has THEN cache[topic].received_at ELSE 0
        fresh == has /\ (r > 0 => t - r <= DYNAMIC_TOPIC_STALE_TIME)
    IN [configured |-> TRUE,
        available |-> fresh,
        msg_type |-> types[topic],
        subscribed |-> topic \in subs,
        received_at |-> IF has THEN Some(r) ELSE None,
        seconds_since_last_message |-> IF fresh /\ r > 0 THEN Some(t - r) ELSE None]

\* One record of get_all_topics_status for a static topic.
StaticStatus(cache, subs, types, topic, t) ==
    LET has == topic \in DOMAIN cache
        r == IF has THEN cache[topic].received_at ELSE 0
    IN [configured |-> TRUE,
        available |-> has,
        msg_type |-> types[topic],
        subscribed |-> topic \in subs,
        received_at |-> IF has THEN Some(r) ELSE None,
        seconds_since_last_message |-> IF has /\ r > 0 THEN Some(t - r) ELSE None]

\* get_all_topics_status that deletes a stale entry and still reports the
\* topic available.
GetAllTopicsStatusStaleAvailable(cache, dynT, statT, subs, t) ==
    LET dyn == DOMAIN dynT
        stat == DOMAIN statT
        dynRec == [p \in dyn |-> DynamicStatus(cache, subs, dynT, p, t)]
        stale == {p \in dyn \cap DOMAIN cache : ~dynRec[p].available}
        cache1 == [k \in DOMAIN cache \ stale |-> cache[k]]
    IN [cache |-> cache1,
        result |-> [p \in dyn \cup stat |->
                       IF p \in stat THEN StaticStatus(cache1, subs, statT, p, t)
                       ELSE [dynRec[p] EXCEPT !.available = p \in DOMAIN cache]]]

\* get_all_topics_status: the status dict and the cache after the pass.
GetAllTopicsStatus(cache, dynT, statT, subs, t) ==
    LET dyn == DOMAIN dynT
        stat == DOMAIN statT
        dynRec == [p \in dyn |-> DynamicStatus(cache, subs, dynT, p, t)]
        stale == {p \in dyn \cap DOMAIN cache : ~dynRec[p].available}
        cache1 == [k \in DOMAIN cache \ stale |-> cache[k]]
    IN [cache |-> cache1,
        result |-> [p \in dyn \cup stat |->
                       IF p \in stat THEN StaticStatus(cache1, subs, statT, p, t)
                       ELSE dynRec[p]]]

\* The sweep without `del self.msg_cache[topic_name]`: stale entries are
\* counted and kept.
PeriodicSweepKeepsStale(cache, dyn, t) ==
    LET stale == {k \in DOMAIN cache \cap dyn :
                     t - cache[k].received_at > DYNAMIC_TOPIC_STALE_TIME}
    IN [cache |-> cache, stale |-> stale, warned |-> dyn \ DOMAIN cache]

\* The sweep without its `if topic_name in self.topics` test.
PeriodicSweepAllTopics(cache, dyn, t) ==
    LET stale == {k \in DOMAIN cache :
                     t - cache[k].received_at > DYNAMIC_TOPIC_STALE_TIME}
        cache1 == [k \in DOMAIN cache \ stale |-> cache[k]]
    IN [cache |-> cache1, stale |-> stale, warned |-> dyn \ DOMAIN cache1]

\* The sweep with its two loops in the other order: the warnings are issued
\* for the topics without entry before the stale entries are deleted.
PeriodicSweepWarnsFirst(cache, dyn, t) ==
    LET stale == {k \in DOMAIN cache \cap dyn :
                     t - cache[k].received_at > DYNAMIC_TOPIC_STALE_TIME}
        cache1 == [k \in DOMAIN cache \ stale |-> cache[k]]
    IN [cache |-> cache1, stale |-> stale, warned |-> dyn \ DOMAIN cache]

\* The sweep with the staleness test written `>=`.
PeriodicSweepStaleAtThreshold(cache, dyn, t) ==
    LET stale == {k \in DOMAIN cache \cap dyn :
                     t - cache[k].received_at >= DYNAMIC_TOPIC_STALE_TIME}
        cache1 == [k \in DOMAIN cache \ stale |-> cache[k]]
    IN [cache |-> cache1, stale |-> stale, warned |-> dyn \ DOMAIN cache1]

\* The sweep of _periodic_status_check at clock value t: stale dynamic
\* entries are deleted, then every dynamic topic without entry is warned about.
PeriodicSweep(cache, dyn, t) ==
    LET stale == {k \in DOMAIN cache \cap dyn :
                     t - cache[k].received_at > DYNAMIC_TOPIC_STALE_TIME}
        cache1 == [k \in DOMAIN cache \ stale |-> cache[k]]
    IN [cache |-> cache1, stale |-> stale, warned |-> dyn \ DOMAIN cache1]

\* The subscription loops without the try/except around each creation: the
\* first failure ends the pass.
RECURSIVE SubscribeAllAbortOnFailure(_, _, _)
SubscribeAllAbortOnFailure(todo, failing, acc) ==
    IF todo = <<>> THEN acc
    ELSE LET t == Head(todo)
         IN IF t \in failing
            THEN [acc EXCEPT !.failed_topics = Append(@, t),
                             !.attempted = Append(@, t)]
            ELSE SubscribeAllAbortOnFailure(Tail(todo), failing,
                    [acc EXCEPT !.subscribers = @ \cup {t},
                                !.attempted = Append(@, t)])

\* The two subscription loops of start(): every configured topic is tried,
\* dynamic topics first; `failing` are the topics whose ROS2Subscriber(...)
\* raises.  acc is [subscribers, failed_topics, attempted].
RECURSIVE SubscribeAll(_, _, _)
SubscribeAll(todo, failing, acc) ==
    IF todo = <<>> THEN acc
    ELSE LET t == Head(todo)
         IN SubscribeAll(Tail(todo), failing,
              IF t \in failing
              THEN [acc EXCEPT !.failed_topics = Append(@, t),
                               !.attempted = Append(@, t)]
              ELSE [acc EXCEPT !.subscribers = @ \cup {t},
                               !.attempted = Append(@, t)])

\* start(): `if not self.subscribers and total_topics > 0: raise RuntimeError`,
\* without its second half.
StartMustRaiseWhenEmpty(subs, total_topics) == subs = {}

\* start(): `if not self.subscribers and total_topics > 0: raise RuntimeError`.
StartMustRaise(subs, total_topics) == subs = {} /\ total_topics > 0

\* _cleanup_subscribers without the try/except around close(): the first
\* close() that raises ends the loop and the dict is not cleared.
RECURSIVE CloseUntilRaise(_, _, _)
CloseUntilRaise(todo, raising, closed) ==
    IF todo = <<>> THEN closed
    ELSE IF Head(todo) \in raising THEN Append(closed, Head(todo))
    ELSE CloseUntilRaise(Tail(todo), raising, Append(closed, Head(todo)))

CleanupSubscribersAbortOnRaise(subs, raising) ==
    [closed |-> CloseUntilRaise(InOrder(subs), raising, <<>>),
     raised |-> subs \cap raising,
     subscribers |-> IF subs \cap raising = {} THEN {} ELSE subs]

\* _cleanup_subscribers: close() is called on every subscriber in dict
\* order, an exception of close() is logged, and the dict is cleared.
\* `raising` are the topics whose close() raises.
RECURSIVE CloseAll(_, _, _)
CloseAll(todo, raising, closed) ==
    IF todo = <<>> THEN closed
    ELSE CloseAll(Tail(todo), raising, Append(closed, Head(todo)))

\* _cleanup_subscribers that leaves in the dict the subscribers whose close()
\* raised.
CleanupSubscribersKeepRaising(subs, raising) ==
    [closed |-> CloseAll(InOrder(subs), raising, <<>>),
     raised |-> subs \cap raising,
     subscribers |-> subs \cap raising]

CleanupSubscribers(subs, raising) ==
    [closed |-> CloseAll(InOrder(subs), raising, <<>>),
     raised |-> subs \cap raising,
     subscribers |-> {}]


\* ------------------------------------------------------------ plugin actions

EmptyCache == [k \in {} |-> 0]
NoThread == [pc |-> "none", since |-> 0]
ThreadIds == 1..MaxThreads

\* Clock values a thread may hold that it read just before taking the lock.
RecentTimes(from) == Max(from, now - MaxLag)..now

\* __init__ of the plugin for one configuration of the given set.
InitPlugin(configs) ==
    /\ now = T0
    /\ \E c \in configs : topics = c.topics /\ static_topics = c.static_topics
    /\ subscribers = {}
    /\ live = {}
    /\ msg_cache = EmptyCache
    /\ is_running = FALSE
    /\ threads = [i \in ThreadIds |-> NoThread]
    /\ status_thread = None
    /\ stop_pc = "idle"
    /\ join_from = 0
    /\ stale_reads = {}
    /\ ret = NoRet

\* One second passes.  The test at the head of the status loop takes no
\* time: a thread standing there moves on before the clock does.
TickUntil(last) ==
    /\ now < last
    /\ \A p \in DOMAIN cs : cs[p].phase # "out" => cs[p].at = 0 \/ now < cs[p].at + MaxLag
    /\ \A i \in ThreadIds : threads[i].pc # "head"
    /\ now' = now + 1
    /\ UNCHANGED <<nonPluginVars, topics, static_topics, subscribers, live, msg_cache,
                   is_running, threads, status_thread, stop_pc, join_from, stale_reads, ret>>

Tick == TickUntil(MaxTime)

\* start() without its `if self.is_running: return`.
StartWhileRunning(failing) ==
    /\ stop_pc = "idle"
    /\ LET todo == InOrder(DOMAIN topics) \o InOrder(DOMAIN static_topics)
           r == SubscribeAll(todo, failing,
                   [subscribers |-> subscribers, failed_topics |-> <<>>,
                    attempted |-> <<>>])
       IN IF StartMustRaise(r.subscribers, Len(todo))
          THEN /\ is_running' = FALSE
               /\ subscribers' = CleanupSubscribers(r.subscribers, {}).subscribers
               /\ ret' = [op |-> "start", outcome |-> "raised",
                          attempted |-> r.attempted,
                          failed_topics |-> r.failed_topics, thread |-> None]
               /\ UNCHANGED <<live, threads, status_thread>>
          ELSE \E i \in ThreadIds :
               /\ threads[i].pc = "none"
               /\ \A j \in ThreadIds : j < i => threads[j].pc # "none"
               /\ is_running' = TRUE
               /\ subscribers' = r.subscribers
               /\ live' = live \cup r.subscribers
               /\ threads' = [threads EXCEPT ![i] = [pc |-> "head", since |-> 0]]
               /\ status_thread' = Some(i)
               /\ ret' = [op |-> "start", outcome |-> "started",
                          attempted |-> r.attempted,
                          failed_topics |-> r.failed_topics, thread |-> Some(i)]
    /\ UNCHANGED <<nonPluginVars, now, topics, static_topics, msg_cache, stop_pc, join_from, stale_reads>>

\* start(): `failing` are the topics whose subscriber creation raises.
Start(failing) ==
    /\ stop_pc = "idle"
    /\ IF is_running
       THEN /\ ret' = [op |-> "start", outcome |-> "already_running"]
            /\ UNCHANGED <<subscribers, live, is_running, threads, status_thread>>
       ELSE LET todo == InOrder(DOMAIN topics) \o InOrder(DOMAIN static_topics)
                r == SubscribeAll(todo, failing,
                        [subscribers |-> subscribers, failed_topics |-> <<>>,
                         attempted |-> <<>>])
            IN IF StartMustRaise(r.subscribers, Len(todo))
               THEN \* RuntimeError: is_running = False, _cleanup_subscribers(), raise
                    /\ is_running' = FALSE
                    /\ subscribers' = CleanupSubscribers(r.subscribers, {}).subscribers
                    /\ ret' = [op |-> "start", outcome |-> "raised",
                               attempted |-> r.attempted,
                               failed_topics |-> r.failed_topics, thread |-> None]
                    /\ UNCHANGED <<live, threads, status_thread>>
               ELSE \E i \in ThreadIds :
                    /\ threads[i].pc = "none"
                    /\ \A j \in ThreadIds : j < i => threads[j].pc # "none"
                    /\ is_running' = TRUE
                    /\ subscribers' = r.subscribers
                    /\ live' = live \cup r.subscribers
                    /\ threads' = [threads EXCEPT ![i] = [pc |-> "head", since |-> 0]]
                    /\ status_thread' = Some(i)
                    /\ ret' = [op |-> "start", outcome |-> "started",
                               attempted |-> r.attempted,
                               failed_topics |-> r.failed_topics, thread |-> Some(i)]
    /\ UNCHANGED <<nonPluginVars, now, topics, static_topics, msg_cache, stop_pc, join_from, stale_reads>>

\* lifespan(): the plugin is constructed and started in one go at process
\* start-up.
LifespanStart(failing) ==
    /\ now = T0
    /\ Start(failing)

\* stop(), up to the join of the status thread.
StopBegin ==
    /\ stop_pc = "idle"
    /\ IF ~is_running
       THEN /\ ret' = [op |-> "stop", outcome |-> "not_running"]
            /\ UNCHANGED <<is_running, stop_pc, join_from>>
       ELSE /\ now + JOIN_TIMEOUT <= MaxTime
            /\ is_running' = FALSE
            /\ stop_pc' = "join"
            /\ join_from' = now
            /\ ret' = NoRet
    /\ UNCHANGED <<nonPluginVars, now, topics, static_topics, subscribers, live, msg_cache, threads,
                   status_thread, stale_reads>>

\* self._status_thread.join() without its timeout.
JoinWithoutTimeout(alive, waited) == ~alive

\* self._status_thread.join(timeout=2.0) returns when the thread has ended or
\* the timeout has passed; it is not called for a thread that is not alive.
JoinReturned(alive, waited) == ~alive \/ waited >= JOIN_TIMEOUT

StatusThreadAlive ==
    status_thread # None /\ threads[TheValue(status_thread)].pc # "none"

\* stop(): the join returned (the thread ended or the timeout passed), then
\* _cleanup_subscribers().  `raising` are the topics whose close() raises,
\* `remain` those of them whose subscription goes on delivering.
StopCleanup(raising, remain) ==
    /\ stop_pc = "join"
    /\ JoinReturned(StatusThreadAlive, now - join_from)
    /\ raising \subseteq subscribers
    /\ remain \subseteq raising
    /\ LET r == CleanupSubscribers(subscribers, raising)
       IN /\ subscribers' = r.subscribers
          /\ live' = (live \ subscribers) \cup remain
          /\ ret' = [op |-> "cleanup", live_before |-> subscribers,
                     closed |-> r.closed, raised |-> r.raised]
    /\ stop_pc' = "clear"
    /\ join_from' = 0
    /\ UNCHANGED <<nonPluginVars, now, topics, static_topics, msg_cache, is_running, threads,
                   status_thread, stale_reads>>

\* stop(): with self.lock: self.msg_cache.clear()
StopClear ==
    /\ stop_pc = "clear"
    /\ msg_cache' = EmptyCache
    /\ stop_pc' = "idle"
    /\ ret' = [op |-> "stop", outcome |-> "stopped", cleared |-> DOMAIN msg_cache]
    /\ UNCHANGED <<nonPluginVars, now, topics, static_topics, subscribers, live, is_running, threads,
                   status_thread, join_from, stale_reads>>

\* msg_callback that stores a message only for a topic without entry.
CallbackKeepsFirst(t, m) ==
    /\ t \in live
    /\ \E r \in RecentTimes(T0) :
          msg_cache' = [k \in DOMAIN msg_cache \cup {t} |->
                           IF k \in DOMAIN msg_cache THEN msg_cache[k]
                           ELSE [raw_message |-> m, received_at |-> r]]
    /\ stale_reads' = stale_reads \ {t}
    /\ ret' = NoRet
    /\ UNCHANGED <<nonPluginVars, now, topics, static_topics, subscribers, live, is_running, threads,
                   status_thread, stop_pc, join_from>>

\* msg_callback of a live subscription: the message m for topic t is stored
\* with the clock value read before the lock was taken.
Callback(t, m) ==
    /\ t \in live
    /\ \E r \in RecentTimes(T0) :
          msg_cache' = [k \in DOMAIN msg_cache \cup {t} |->
                           IF k = t THEN [raw_message |-> m, received_at |-> r]
                           ELSE msg_cache[k]]
    /\ stale_reads' = stale_reads \ {t}
    /\ ret' = NoRet
    /\ UNCHANGED <<nonPluginVars, now, topics, static_topics, subscribers, live, is_running, threads,
                   status_thread, stop_pc, join_from>>

GetTopicDataCall(t) ==
    /\ LET r == GetTopicData(msg_cache, DOMAIN topics, t, now)
       IN /\ msg_cache' = r.cache
          /\ stale_reads' = IF r.stale THEN stale_reads \cup {t} ELSE stale_reads
          /\ ret' = [op |-> "get", topic |-> t, result |-> r.result,
                     stale |-> r.stale]
    /\ UNCHANGED <<nonPluginVars, now, topics, static_topics, subscribers, live, is_running, threads,
                   status_thread, stop_pc, join_from>>

IsTopicAvailableCall(t) ==
    /\ LET r == IsTopicAvailable(msg_cache, DOMAIN topics, DOMAIN static_topics, t, now)
       IN /\ msg_cache' = r.cache
          /\ ret' = [op |-> "is_available", topic |-> t,
                     result |-> r.result, stale |-> r.stale]
    /\ UNCHANGED <<nonPluginVars, now, topics, static_topics, subscribers, live, is_running, threads,
                   status_thread, stop_pc, join_from, stale_reads>>

\* get_all_topics_status(): the clock is read before the lock is taken.
GetAllTopicsStatusCall ==
    /\ \E t \in RecentTimes(T0) :
          LET r == GetAllTopicsStatus(msg_cache, topics, static_topics, subscribers, t)
          IN /\ msg_cache' = r.cache
             /\ ret' = [op |-> "status", at |-> t, result |-> r.result]
    /\ UNCHANGED <<nonPluginVars, now, topics, static_topics, subscribers, live, is_running, threads,
                   status_thread, stop_pc, join_from, stale_reads>>

\* GET /containers/{container}/ros2/topics/{topic}: 503 without a registered
\* plugin, 404 for a topic list_topics does not hold, then the two reads and
\* the response, whose msg_type is plugin.topics[topic]: a KeyError, and with
\* it HTTP 500, for a topic that is not in that dict.
RestGetTopicData(t) ==
    IF ~is_running
    THEN /\ ret' = [op |-> "rest", topic |-> t, status |-> 503]
         /\ UNCHANGED <<msg_cache, stale_reads>>
    ELSE IF t \notin Configured
    THEN /\ ret' = [op |-> "rest", topic |-> t, status |-> 404]
         /\ UNCHANGED <<msg_cache, stale_reads>>
    ELSE LET g == GetTopicData(msg_cache, DOMAIN topics, t, now)
             a == IsTopicAvailable(g.cache, DOMAIN topics, DOMAIN static_topics, t, now)
         IN /\ msg_cache' = a.cache
            /\ stale_reads' = IF g.stale THEN stale_reads \cup {t} ELSE stale_reads
            /\ ret' = IF t \in DOMAIN topics
                      THEN [op |-> "rest", topic |-> t, status |-> 200,
                            msg_type |-> topics[t],
                            data |-> IF g.result = None THEN None
                                     ELSE Some(TheValue(g.result).data),
                            available |-> a.result]
                      ELSE [op |-> "rest", topic |-> t, status |-> 500]

RestGetTopicDataCall(t) ==
    /\ RestGetTopicData(t)
    /\ UNCHANGED <<nonPluginVars, now, topics, static_topics, subscribers, live, is_running,
                   threads, status_thread, stop_pc, join_from>>

ClearTopicCache(t) ==
    /\ t \in DOMAIN msg_cache
    /\ msg_cache' = Remove(msg_cache, t)
    /\ ret' = NoRet
    /\ UNCHANGED <<nonPluginVars, now, topics, static_topics, subscribers, live, is_running, threads,
                   status_thread, stop_pc, join_from, stale_reads>>

ClearAllCache ==
    /\ msg_cache # EmptyCache
    /\ msg_cache' = EmptyCache
    /\ ret' = NoRet
    /\ UNCHANGED <<nonPluginVars, now, topics, static_topics, subscribers, live, is_running, threads,
                   status_thread, stop_pc, join_from, stale_reads>>

\* _periodic_status_check at `while self.is_running:`: sleep, or leave.
StatusThreadHead(i) ==
    /\ threads[i].pc = "head"
    /\ threads' = [threads EXCEPT ![i] =
                      IF is_running THEN [pc |-> "sleep", since |-> now] ELSE NoThread]
    /\ UNCHANGED <<nonPluginVars, now, topics, static_topics, subscribers, live, msg_cache, is_running,
                   status_thread, stop_pc, join_from, stale_reads, ret>>

\* _periodic_status_check without `if not self.is_running: break` after the
\* sleep: the sweep is always made.
StatusThreadWakeSweepsAnyway(i) ==
    /\ threads[i].pc = "sleep"
    /\ now >= threads[i].since + STATUS_CHECK_INTERVAL
    /\ threads' = [threads EXCEPT ![i] = [pc |-> "head", since |-> 0]]
    /\ \E t \in RecentTimes(threads[i].since + STATUS_CHECK_INTERVAL) :
          LET r == PeriodicSweep(msg_cache, DOMAIN topics, t)
          IN /\ msg_cache' = r.cache
             /\ ret' = [op |-> "sweep", at |-> t, stale |-> r.stale,
                        warned |-> r.warned]
    /\ UNCHANGED <<nonPluginVars, now, topics, static_topics, subscribers, live, is_running,
                   status_thread, stop_pc, join_from, stale_reads>>

\* _periodic_status_check after time.sleep(STATUS_CHECK_INTERVAL): leave when
\* stopped, else sweep with the clock value read before the lock was taken.
\* The status thread retrying, at each wake-up of a running plugin, the
\* subscriptions that are missing.
StatusThreadWakeResubscribes(i) ==
    /\ threads[i].pc = "sleep"
    /\ now >= threads[i].since + STATUS_CHECK_INTERVAL
    /\ IF ~is_running
       THEN /\ threads' = [threads EXCEPT ![i] = NoThread]
            /\ UNCHANGED <<msg_cache, ret, subscribers, live>>
       ELSE /\ threads' = [threads EXCEPT ![i] = [pc |-> "head", since |-> 0]]
            /\ subscribers' = Configured
            /\ live' = live \cup Configured
            /\ \E t \in RecentTimes(threads[i].since + STATUS_CHECK_INTERVAL) :
                  LET r == PeriodicSweep(msg_cache, DOMAIN topics, t)
                  IN /\ msg_cache' = r.cache
                     /\ ret' = [op |-> "sweep", at |-> t, stale |-> r.stale,
                                warned |-> r.warned]
    /\ UNCHANGED <<nonPluginVars, now, topics, static_topics, is_running,
                   status_thread, stop_pc, join_from, stale_reads>>

StatusThreadWake(i) ==
    /\ threads[i].pc = "sleep"
    /\ now >= threads[i].since + STATUS_CHECK_INTERVAL
    /\ IF ~is_running
       THEN /\ threads' = [threads EXCEPT ![i] = NoThread]
            /\ UNCHANGED <<msg_cache, ret>>
       ELSE /\ threads' = [threads EXCEPT ![i] = [pc |-> "head", since |-> 0]]
            /\ \E t \in RecentTimes(threads[i].since + STATUS_CHECK_INTERVAL) :
                  LET r == PeriodicSweep(msg_cache, DOMAIN topics, t)
                  IN /\ msg_cache' = r.cache
                     /\ ret' = [op |-> "sweep", at |-> t, stale |-> r.stale,
                                warned |-> r.warned]
    /\ UNCHANGED <<nonPluginVars, now, topics, static_topics, subscribers, live, is_running,
                   status_thread, stop_pc, join_from, stale_reads>>


\* ------------------------------------------------------------ the cache lock
\* The threads that work on the cache: the middleware thread that runs the
\* callbacks, the event loop that serves the API, the status thread and the
\* caller of stop().
LockThreads == {"callback", "api", "janitor", "stopper"}

\* The operations of each thread that touch self.msg_cache.
LockOps(p) ==
    CASE p = "callback" -> {"put"}
      [] p = "api" -> {"get", "is_available", "clear", "clear_all", "status"}
      [] p = "janitor" -> {"sweep"}
      [] p = "stopper" -> {"stop_clear"}

\* The operations that read time.time() before they take the lock.
ReadsClockFirst == {"put", "status", "sweep"}

Outside == [phase |-> "out"]

InitLock ==
    /\ lock = None
    /\ cs = [p \in LockThreads |-> Outside]

\* A lock acquired without looking at its state.
LockAlwaysFree(l) == TRUE

\* threading.Lock: acquire() goes through when nobody holds it.
LockFree(l) == l = None

\* The operation can begin: a callback needs a delivering subscription, the
\* sweep a status thread past its sleep that saw is_running, stop's clear a
\* stop() past _cleanup_subscribers().
CanBegin(p, op, t) ==
    CASE op = "put" -> t \in live
      [] op = "sweep" ->
            /\ is_running
            /\ StatusThreadAlive
            /\ threads[TheValue(status_thread)].pc = "sleep"
            /\ now >= threads[TheValue(status_thread)].since + STATUS_CHECK_INTERVAL
      [] op = "stop_clear" -> stop_pc = "clear"
      [] OTHER -> TRUE

\* The thread reaches `with self.lock:`; msg_callback, get_all_topics_status
\* and the sweep have read the clock just before.
LockRequest(p, op, t, m) ==
    /\ cs[p] = Outside
    /\ op \in LockOps(p)
    /\ CanBegin(p, op, t)
    /\ cs' = [cs EXCEPT ![p] = [phase |-> "wait", op |-> op, topic |-> t, msg |-> m,
                                 at |-> IF op \in ReadsClockFirst THEN now ELSE 0]]
    /\ UNCHANGED <<compVars, logVars, topicVars, appVars, lock>>

\* The thread gets the lock.
LockAcquire(p) ==
    /\ cs[p].phase = "wait"
    /\ LockFree(lock)
    /\ lock' = Some(p)
    /\ cs' = [cs EXCEPT ![p].phase = "in"]
    /\ UNCHANGED <<compVars, logVars, topicVars, appVars>>

\* The cache after the body of the `with` block of operation c.
CacheAfter(c, cache) ==
    CASE c.op = "put" ->
            [k \in DOMAIN cache \cup {c.topic} |->
                IF k = c.topic THEN [raw_message |-> c.msg, received_at |-> c.at]
                ELSE cache[k]]
      [] c.op = "get" -> GetTopicData(cache, DOMAIN topics, c.topic, now).cache
      [] c.op = "is_available" ->
            IsTopicAvailable(cache, DOMAIN topics, DOMAIN static_topics, c.topic, now).cache
      [] c.op = "clear" -> Remove(cache, c.topic)
      [] c.op = "clear_all" -> EmptyCache
      [] c.op = "status" ->
            GetAllTopicsStatus(cache, topics, static_topics, subscribers, c.at).cache
      [] c.op = "sweep" -> PeriodicSweep(cache, DOMAIN topics, c.at).cache
      [] c.op = "stop_clear" -> EmptyCache

\* The thread runs the body of the `with` block and leaves it, which
\* releases the lock.
LockExit(p) ==
    /\ cs[p].phase = "in"
    /\ msg_cache' = CacheAfter(cs[p], msg_cache)
    /\ lock' = None
    /\ cs' = [cs EXCEPT ![p] = Outside]
    /\ stop_pc' = IF cs[p].op = "stop_clear" THEN "idle" ELSE stop_pc
    /\ threads' = IF cs[p].op = "sweep"
                  THEN [threads EXCEPT ![TheValue(status_thread)] =
                           [pc |-> "head", since |-> 0]]
                  ELSE threads
    /\ UNCHANGED <<logVars, topicVars, appVars, now, topics, static_topics, subscribers, live,
                   is_running, status_thread, join_from, stale_reads, ret>>

\* --------------------------------------------------------------- lifespan

\* config.containers, in the order of the configuration file.
ContainerOrder == <<"c1", "c2", "c3">>
Containers == {ContainerOrder[i] : i \in DOMAIN ContainerOrder}

\* The process before lifespan() runs: nothing is registered;
\* `configs` are the sets of containers that may have a ros2 section.
InitApp(configs) ==
    /\ app_pc = "startup"
    /\ app_todo = ContainerOrder
    /\ ros2_containers \in configs
    /\ ros2_plugins = <<>>
    /\ plugin_state = [c \in Containers |-> "absent"]

\* set_ros2_plugin: _ros2_plugins[container_name] = plugin.
SetRos2Plugin(plugins, c) ==
    IF \E i \in DOMAIN plugins : plugins[i] = c THEN plugins ELSE Append(plugins, c)

\* One round of the start-up loop in which the first failure ends the loop.
LifespanStartContainerAbortOnFailure(outcome) ==
    /\ app_pc = "startup"
    /\ app_todo # <<>>
    /\ LET c == Head(app_todo)
       IN IF c \notin ros2_containers
          THEN /\ outcome = "started"
               /\ app_todo' = Tail(app_todo)
               /\ UNCHANGED <<ros2_plugins, plugin_state>>
          ELSE IF outcome = "started"
          THEN /\ ros2_plugins' = SetRos2Plugin(ros2_plugins, c)
               /\ plugin_state' = [plugin_state EXCEPT ![c] = "running"]
               /\ app_todo' = Tail(app_todo)
          ELSE /\ plugin_state' = [plugin_state EXCEPT ![c] = outcome]
               /\ app_todo' = <<>>
               /\ UNCHANGED ros2_plugins
    /\ UNCHANGED <<compVars, logVars, topicVars, lockVars, app_pc, ros2_containers>>

\* One round of the start-up loop of lifespan(): a container without a ros2
\* section is passed over; for the others the plugin is constructed and
\* started, and registered when neither raised.  `outcome` is "started",
\* "construct_raised" (the configuration cannot be read) or "start_raised".
LifespanStartContainer(outcome) ==
    /\ app_pc = "startup"
    /\ app_todo # <<>>
    /\ LET c == Head(app_todo)
       IN IF c \notin ros2_containers
          THEN /\ outcome = "started"
               /\ UNCHANGED <<ros2_plugins, plugin_state>>
          ELSE IF outcome = "started"
          THEN /\ ros2_plugins' = SetRos2Plugin(ros2_plugins, c)
               /\ plugin_state' = [plugin_state EXCEPT ![c] = "running"]
          ELSE /\ plugin_state' = [plugin_state EXCEPT ![c] = outcome]
               /\ UNCHANGED ros2_plugins
    /\ app_todo' = Tail(app_todo)
    /\ UNCHANGED <<compVars, logVars, topicVars, lockVars, app_pc, ros2_containers>>

\* The start-up loop is over: `yield`, the application serves requests.
LifespanYield ==
    /\ app_pc = "startup"
    /\ app_todo = <<>>
    /\ app_pc' = "serving"
    /\ UNCHANGED <<compVars, logVars, topicVars, lockVars, app_todo, ros2_containers,
                   ros2_plugins, plugin_state>>

\* Shutdown begins: plugins = get_ros2_plugins().
LifespanShutdown ==
    /\ app_pc = "serving"
    /\ app_pc' = "shutdown"
    /\ app_todo' = ros2_plugins
    /\ UNCHANGED <<compVars, logVars, topicVars, lockVars, ros2_containers, ros2_plugins,
                   plugin_state>>

\* One round of the shutdown loop: plugin.stop() inside try/except; `raised`
\* says whether the call raised.
LifespanStopPlugin(raised) ==
    /\ app_pc = "shutdown"
    /\ app_todo # <<>>
    /\ plugin_state' = [plugin_state EXCEPT
                           ![Head(app_todo)] = IF raised THEN "stop_raised" ELSE "stopped"]
    /\ app_todo' = Tail(app_todo)
    /\ UNCHANGED <<compVars, logVars, topicVars, lockVars, app_pc, ros2_containers,
                   ros2_plugins>>

\* The shutdown loop is over: clear_ros2_plugins().
LifespanClear ==
    /\ app_pc = "shutdown"
    /\ app_todo = <<>>
    /\ ros2_plugins' = <<>>
    /\ app_pc' = "down"
    /\ UNCHANGED <<compVars, logVars, topicVars, lockVars, app_todo, ros2_containers,
                   plugin_state>>

\* ------------------------------------------------------------- the log file

FileSize == Len(log_content)

\* The last n lines of the file.  Every byte of the modelled log is a line
\* of its own, so these are its last n bytes.
LastLines(content, n) == SubSeq(content, Max(1, Len(content) - n + 1), Len(content))

\* The cursor read answering the offset it started from instead of f.tell().
AgentReadFromCursorNoAdvance(exists, content, c) ==
    IF ~exists THEN [logs |-> <<>>, cursor |-> 0]
    ELSE LET size == Len(content)
             c0 == IF c < 0 THEN 0 ELSE c
             c1 == IF c0 > size THEN size ELSE c0
         IN [logs |-> SubSeq(content, c1 + 1, size), cursor |-> c1]

\* The cursor read without `if cursor > current_size: cursor = current_size`:
\* the seek goes past the end, nothing is read and f.tell() is the cursor.
AgentReadFromCursorNoClamp(exists, content, c) ==
    IF ~exists THEN [logs |-> <<>>, cursor |-> 0]
    ELSE LET size == Len(content)
             c0 == IF c < 0 THEN 0 ELSE c
         IN [logs |-> SubSeq(content, c0 + 1, size), cursor |-> Max(c0, size)]

\* The cursor read answering the number of bytes read instead of f.tell().
AgentReadFromCursorReturnsLength(exists, content, c) ==
    IF ~exists THEN [logs |-> <<>>, cursor |-> 0]
    ELSE LET size == Len(content)
             c0 == IF c < 0 THEN 0 ELSE c
             c1 == IF c0 > size THEN size ELSE c0
         IN [logs |-> SubSeq(content, c1 + 1, size), cursor |-> size - c1]

\* get_service_logs of the agent with a cursor: the cursor is brought into
\* 0..size, the file is read from there to its end, and the position
\* reached is the new cursor.  A missing file gives no logs and cursor 0.
AgentReadFromCursor(exists, content, c) ==
    IF ~exists THEN [logs |-> <<>>, cursor |-> 0]
    ELSE LET size == Len(content)
             c0 == IF c < 0 THEN 0 ELSE c
             c1 == IF c0 > size THEN size ELSE c0
         IN [logs |-> SubSeq(content, c1 + 1, size), cursor |-> size]

\* The external writer (s6-log) appends one byte.
AppendLog ==
    /\ next_byte <= MaxBytes
    /\ log_exists' = TRUE
    /\ log_content' = Append(log_content, next_byte)
    /\ next_byte' = next_byte + 1
    /\ UNCHANGED <<nonLogVars, truncated_ever, ws_pc, cursor, tail_logs, service_is_up,
                   log_service_is_up, polls_since_check, sent_initial, sent_updates,
                   resent, early_bytes, last_fetch>>

\* The file is cut to its first k bytes (clear_service_logs cuts it to 0).
TruncateLog(k) ==
    /\ log_exists
    /\ k < FileSize
    /\ log_content' = SubSeq(log_content, 1, k)
    /\ truncated_ever' = TRUE
    /\ UNCHANGED <<nonLogVars, log_exists, next_byte, ws_pc, cursor, tail_logs,
                   service_is_up, log_service_is_up, polls_since_check, sent_initial,
                   sent_updates, resent, early_bytes, last_fetch>>

\* The file is removed (log rotation moves `current` away).
RemoveLog ==
    /\ log_exists
    /\ log_exists' = FALSE
    /\ log_content' = <<>>
    /\ truncated_ever' = TRUE
    /\ UNCHANGED <<nonLogVars, next_byte, ws_pc, cursor, tail_logs, service_is_up,
                   log_service_is_up, polls_since_check, sent_initial, sent_updates,
                   resent, early_bytes, last_fetch>>

\* --------------------------------- get_service_logs of the agent, by request

\* The cursor check answering the start of the file for a cursor beyond
\* its end.
ClampCursorToStart(c, size) ==
    LET c0 == IF c < 0 THEN 0 ELSE c
    IN IF c0 > size THEN 0 ELSE c0

\* `if cursor < 0: cursor = 0` and `if cursor > current_size: cursor =
\* current_size`.
ClampCursor(c, size) ==
    LET c0 == IF c < 0 THEN 0 ELSE c
    IN IF c0 > size THEN size ELSE c0

\* f.seek(pos); f.read(); f.tell(): the bytes from pos to the end and the
\* position after them.  A seek beyond the end reads nothing and stays there.
ReadFrom(content, pos) ==
    LET logs == SubSeq(content, pos + 1, Len(content))
    IN [logs |-> logs, cursor |-> pos + Len(logs)]

AgentIdle == last_fetch.kind \notin {"cursor_running", "tail_running"}

\* A request with a cursor arrives: a missing file is answered at once,
\* otherwise the file is stat'ed and the cursor brought into 0..size.
AgentCursorStat(c) ==
    /\ AgentIdle
    /\ last_fetch' = IF ~log_exists
                     THEN [kind |-> "cursor", missing |-> TRUE, requested |-> c,
                           logs |-> <<>>, cursor |-> 0]
                     ELSE [kind |-> "cursor_running", requested |-> c,
                           size |-> FileSize, seek |-> ClampCursor(c, FileSize)]
    /\ UNCHANGED <<nonLogVars, log_exists, log_content, next_byte, truncated_ever, ws_pc,
                   cursor, tail_logs, service_is_up, log_service_is_up,
                   polls_since_check, sent_initial, sent_updates, resent, early_bytes>>

\* The file is opened and read from the cursor; a file removed since the
\* stat makes the request fail (HTTP 500).
AgentCursorRead ==
    /\ last_fetch.kind = "cursor_running"
    /\ last_fetch' = IF ~log_exists
                     THEN [kind |-> "error", requested |-> last_fetch.requested]
                     ELSE LET r == ReadFrom(log_content, last_fetch.seek)
                          IN [kind |-> "cursor", missing |-> FALSE,
                              requested |-> last_fetch.requested,
                              logs |-> r.logs, cursor |-> r.cursor]
    /\ UNCHANGED <<nonLogVars, log_exists, log_content, next_byte, truncated_ever, ws_pc,
                   cursor, tail_logs, service_is_up, log_service_is_up,
                   polls_since_check, sent_initial, sent_updates, resent, early_bytes>>

\* A request without a cursor arrives: a missing file is answered at once,
\* otherwise `tail -n` runs.
AgentTailRun(n) ==
    /\ AgentIdle
    /\ last_fetch' = IF ~log_exists
                     THEN [kind |-> "tail", missing |-> TRUE, logs |-> <<>>, cursor |-> 0]
                     ELSE [kind |-> "tail_running", logs |-> LastLines(log_content, n)]
    /\ UNCHANGED <<nonLogVars, log_exists, log_content, next_byte, truncated_ever, ws_pc,
                   cursor, tail_logs, service_is_up, log_service_is_up,
                   polls_since_check, sent_initial, sent_updates, resent, early_bytes>>

\* After tail has finished the file is stat'ed for the cursor; a file
\* removed since makes the request fail (HTTP 500).
AgentTailStat ==
    /\ last_fetch.kind = "tail_running"
    /\ last_fetch' = IF ~log_exists
                     THEN [kind |-> "error", requested |-> 0]
                     ELSE [kind |-> "tail", missing |-> FALSE, logs |-> last_fetch.logs,
                           cursor |-> FileSize]
    /\ UNCHANGED <<nonLogVars, log_exists, log_content, next_byte, truncated_ever, ws_pc,
                   cursor, tail_logs, service_is_up, log_service_is_up,
                   polls_since_check, sent_initial, sent_updates, resent, early_bytes>>

\* ------------------------------------------- websocket_service_logs (session)

NoFetch == [kind |-> "none"]

InitLog ==
    /\ log_exists = FALSE
    /\ log_content = <<>>
    /\ next_byte = 1
    /\ truncated_ever = FALSE
    /\ ws_pc = "connect"
    /\ cursor = None
    /\ tail_logs = <<>>
    /\ service_is_up = TRUE
    /\ log_service_is_up = TRUE
    /\ polls_since_check = PollsPerStatusCheck
    /\ sent_initial = {}
    /\ sent_updates = {}
    /\ resent = {}
    /\ early_bytes = {}
    /\ last_fetch = NoFetch

\* The initial fetch raised (agent unreachable or HTTP 500): an error message
\* is sent and polling starts from cursor 0; a failed send ends the session.
InitialFetchFailed(send_ok) ==
    /\ ws_pc' = IF send_ok THEN "poll" ELSE "closed"
    /\ cursor' = IF send_ok THEN Some(0) ELSE cursor
    /\ tail_logs' = <<>>
    /\ early_bytes' = SeqToSet(log_content)

\* client.get_service_logs(service, INITIAL_LOG_TAIL), first half: the agent
\* finds the file and runs `tail -n`, or finds no file and answers cursor 0.
WsInitialTail(fetch_ok, send_ok) ==
    /\ ws_pc = "connect"
    /\ IF ~fetch_ok
       THEN InitialFetchFailed(send_ok)
       ELSE IF ~log_exists
       THEN /\ ws_pc' = "refresh"
            /\ cursor' = Some(0)
            /\ tail_logs' = <<>>
            /\ early_bytes' = {}
       ELSE /\ ws_pc' = "tail_done"
            /\ tail_logs' = LastLines(log_content, INITIAL_LOG_TAIL)
            /\ UNCHANGED <<cursor, early_bytes>>
    /\ UNCHANGED <<nonLogVars, log_exists, log_content, next_byte, truncated_ever,
                   service_is_up, log_service_is_up, polls_since_check, sent_initial,
                   sent_updates, resent, last_fetch>>

\* Second half: the agent stats the file for the cursor (a file removed
\* meanwhile makes the request fail), then the session sends the initial logs.
WsInitialStat(send_ok) ==
    /\ ws_pc = "tail_done"
    /\ IF ~log_exists
       THEN /\ InitialFetchFailed(send_ok)
            /\ UNCHANGED <<sent_initial>>
       ELSE /\ cursor' = Some(FileSize)
            /\ early_bytes' = SeqToSet(log_content)
            /\ tail_logs' = <<>>
            /\ IF tail_logs = <<>>
               THEN ws_pc' = "refresh" /\ UNCHANGED sent_initial
               ELSE IF send_ok
               THEN ws_pc' = "refresh" /\ sent_initial' = SeqToSet(tail_logs)
               ELSE ws_pc' = "closed" /\ UNCHANGED sent_initial
    /\ UNCHANGED <<nonLogVars, log_exists, log_content, next_byte, truncated_ever,
                   service_is_up, log_service_is_up, polls_since_check, sent_updates,
                   resent, last_fetch>>

\* The cursor refresh after the initial logs: the response's cursor is
\* taken, its logs are not looked at; a failed request keeps the cursor.
WsRefresh(fetch_ok) ==
    /\ ws_pc = "refresh"
    /\ ws_pc' = "poll"
    /\ IF fetch_ok
       THEN LET c == TheValue(cursor)
                resp == AgentReadFromCursor(log_exists, log_content, c)
            IN /\ cursor' = Some(resp.cursor)
               /\ last_fetch' = [kind |-> "refresh", requested |-> c,
                                 size |-> FileSize, logs |-> resp.logs,
                                 cursor |-> resp.cursor, sent |-> FALSE]
       ELSE UNCHANGED <<cursor, last_fetch>>
    /\ UNCHANGED <<nonLogVars, log_exists, log_content, next_byte, truncated_ever,
                   tail_logs, service_is_up, log_service_is_up, polls_since_check,
                   sent_initial, sent_updates, resent, early_bytes>>

\* The poll loop's `except Exception as fetch_error` without its `continue`:
\* the session ends.
FetchErrorEndsSession(c) == [pc |-> "closed", cursor |-> c]

\* The poll loop's `except Exception as fetch_error`: the error is logged, the
\* loop sleeps ERROR_RETRY_DELAY and continues with the cursor it had.
FetchError(c) == [pc |-> "poll", cursor |-> c]

\* One iteration of the poll loop: the periodic service status check (with
\* results up and log_up), the fetch from the cursor, the send.
WsPoll(check, up, log_up, fetch_ok, send_ok) ==
    /\ ws_pc = "poll"
    /\ polls_since_check + 1 >= PollsPerStatusCheck => check
    /\ ~check => up = service_is_up /\ log_up = log_service_is_up
    /\ service_is_up' = up
    /\ log_service_is_up' = log_up
    /\ polls_since_check' = IF ~fetch_ok THEN PollsPerStatusCheck
                            ELSE IF check THEN 0 ELSE polls_since_check + 1
    /\ IF ~fetch_ok
       THEN /\ ws_pc' = FetchError(cursor).pc
            /\ cursor' = FetchError(cursor).cursor
            /\ last_fetch' = [kind |-> "failed", requested |-> TheValue(cursor)]
            /\ UNCHANGED <<sent_updates, resent>>
       ELSE LET c == TheValue(cursor)
                resp == AgentReadFromCursor(log_exists, log_content, c)
                new_logs == SeqToSet(resp.logs)
                sending == resp.logs # <<>> /\ (up \/ log_up)
            IN /\ last_fetch' = [kind |-> "poll", requested |-> c, size |-> FileSize,
                                 logs |-> resp.logs, cursor |-> resp.cursor,
                                 sent |-> sending /\ send_ok,
                                 retry |-> last_fetch.kind = "failed"]
               /\ IF sending /\ ~send_ok
                  THEN ws_pc' = "closed" /\ UNCHANGED <<cursor, sent_updates, resent>>
                  ELSE /\ ws_pc' = ws_pc
                       /\ cursor' = Some(resp.cursor)
                       /\ IF sending
                          THEN /\ sent_updates' = sent_updates \cup new_logs
                               /\ resent' = resent \cup
                                     (new_logs \cap (sent_initial \cup sent_updates))
                          ELSE UNCHANGED <<sent_updates, resent>>
    /\ UNCHANGED <<nonLogVars, log_exists, log_content, next_byte, truncated_ever,
                   tail_logs, sent_initial, early_bytes>>

\* --------------------------------------------- the topic-polling session

\* time.time() as the session reads it, in ticks.
WallClock == now * TicksPerSecond + tenths

\* time.time() as the plugin compares it with the whole seconds at which
\* messages were stored: an age exceeds a whole number of seconds exactly
\* when the age rounded up does.
PluginClock == IF tenths > 0 THEN now + 1 ELSE now

\* hash(str(data)) of a converted message: equal for equal data, never the
\* value kept for "unavailable sent".
HashOf(d) == d.data

SessionTopics == Configured \cup {Unconfigured}

NoAttempt == [n |-> 0, ok |-> FALSE, data |-> None, available |-> TRUE, at |-> 0,
              after |-> "none", valued |-> FALSE]

\* The state of a connection nobody has opened yet, for one of the topics.
InitTopic(names) ==
    /\ tenths = 0
    /\ ts_pc = "connect"
    /\ ts_topic \in names
    /\ last_send_time = 0
    /\ last_sent_data_hash = None
    /\ ts_current_time = 0
    /\ ts_cached = None
    /\ ts_pass = "none"
    /\ ts_fail = FALSE
    /\ ts_out = NoAttempt

\* What a delivered message told the client.
KindOf(out) == IF ~out.ok THEN out.after
               ELSE IF out.available THEN "value" ELSE "unavailable"

\* _send_websocket_data of a response with this data and availability, at
\* time t, and whether it returned True.  The record also keeps what the
\* client was told before and whether it has been given a value yet.
Attempt(data, available, t, ok) ==
    [n |-> 1 - ts_out.n, ok |-> ok, data |-> data, available |-> available,
     at |-> t, after |-> KindOf(ts_out),
     valued |-> (ts_out.valued \/ (ok /\ data # None))]

\* A tenth of a second passes; past the tenths followed, the rest of the
\* second does.
WsTick ==
    /\ IF tenths < MaxTenth
       THEN tenths' = tenths + 1 /\ now' = now
       ELSE now < MaxTopicTime /\ tenths' = 0 /\ now' = now + 1
    /\ UNCHANGED <<logVars, lockVars, appVars, topics, static_topics, subscribers, live,
                   msg_cache, is_running, threads, status_thread, stop_pc, join_from,
                   stale_reads, ret, ts_pc, ts_topic, last_send_time,
                   last_sent_data_hash, ts_current_time, ts_cached, ts_pass,
                   ts_fail, ts_out>>

\* A message for the session's topic, arriving on a whole second.
TopicCallback(m) ==
    /\ tenths = 0
    /\ Callback(ts_topic, m)

\* websocket_ros2_topic_data when no plugin is registered for the container
\* or the topic is not configured: an error is sent and the socket closed.
TopicReject ==
    /\ ts_pc = "connect"
    /\ ~is_running \/ ts_topic \notin Configured
    /\ ts_pc' = "closed"
    /\ UNCHANGED <<compVars, logVars, lockVars, appVars, tenths, ts_topic, last_send_time,
                   last_sent_data_hash, ts_current_time, ts_cached, ts_pass,
                   ts_fail, ts_out>>

\* The initial send, first half: cached_data = plugin.get_topic_data(topic).
TopicConnectGet ==
    /\ ts_pc = "connect"
    /\ is_running
    /\ ts_topic \in Configured
    /\ LET r == GetTopicData(msg_cache, DOMAIN topics, ts_topic, PluginClock)
       IN /\ msg_cache' = r.cache
          /\ stale_reads' = IF r.stale THEN stale_reads \cup {ts_topic} ELSE stale_reads
          /\ ts_cached' = r.result
    /\ ts_pc' = "initial"
    /\ UNCHANGED <<logVars, lockVars, appVars, now, topics, static_topics, subscribers, live,
                   is_running, threads, status_thread, stop_pc, join_from, ret,
                   tenths, ts_topic, last_send_time, last_sent_data_hash,
                   ts_current_time, ts_pass, ts_fail, ts_out>>

NoSend == [send |-> FALSE, data |-> None, available |-> FALSE, hash |-> None]

\* What the initial send sends: the cached value with the availability, or
\* the unavailable status when there is no value and the topic is not
\* available, or nothing.
InitialDecision(cached, available) ==
    IF cached # None
    THEN LET data == TheValue(cached).data
         IN [send |-> TRUE, data |-> Some(data), available |-> available,
             hash |-> Some(HashOf(data))]
    ELSE IF ~available
    THEN [send |-> TRUE, data |-> None, available |-> FALSE,
          hash |-> Some(UnavailableSent)]
    ELSE NoSend

\* The initial send, second half: available = plugin.is_topic_available(topic)
\* and the send.  A send that succeeds records time.time() and the hash; one
\* that fails records nothing, and the polling loop is entered either way.
TopicConnectSend(send_ok) ==
    /\ ts_pc = "initial"
    /\ LET a == IsTopicAvailable(msg_cache, DOMAIN topics, DOMAIN static_topics,
                                 ts_topic, PluginClock)
           d == InitialDecision(ts_cached, a.result)
       IN /\ msg_cache' = a.cache
          /\ IF d.send
             THEN /\ ts_out' = Attempt(d.data, d.available, WallClock, send_ok)
                  /\ ts_fail' = (ts_fail \/ ~send_ok)
                  /\ IF send_ok
                     THEN /\ last_send_time' = WallClock
                          /\ last_sent_data_hash' = d.hash
                     ELSE UNCHANGED <<last_send_time, last_sent_data_hash>>
             ELSE /\ send_ok
                  /\ UNCHANGED <<ts_out, ts_fail, last_send_time, last_sent_data_hash>>
    /\ ts_pc' = "loop"
    /\ ts_cached' = None
    /\ UNCHANGED <<logVars, lockVars, appVars, now, topics, static_topics, subscribers, live,
                   is_running, threads, status_thread, stop_pc, join_from,
                   stale_reads, ret, tenths, ts_topic, ts_current_time, ts_pass>>

\* `if time_since_last_send < min_interval` with the comparison left out.
NeverThrottled(current_time, last, interval) == FALSE

\* _poll_and_send_single_topic_data: `time_since_last_send < min_interval`.
Throttled(current_time, last, interval) == current_time - last < interval

\* The first half of a pass taking the value out of the cache as it reads it.
TopicPollGetConsumes ==
    /\ ts_pc = "loop"
    /\ IF Throttled(WallClock, last_send_time, min_interval)
       THEN /\ ts_pass' = "throttled"
            /\ UNCHANGED <<msg_cache, stale_reads, ts_pc, ts_current_time, ts_cached>>
       ELSE /\ LET r == GetTopicData(msg_cache, DOMAIN topics, ts_topic, PluginClock)
               IN /\ msg_cache' = Remove(r.cache, ts_topic)
                  /\ stale_reads' = IF r.stale THEN stale_reads \cup {ts_topic}
                                    ELSE stale_reads
                  /\ ts_cached' = r.result
            /\ ts_current_time' = WallClock
            /\ ts_pass' = "reading"
            /\ ts_pc' = "polled"
    /\ UNCHANGED <<logVars, lockVars, appVars, now, topics, static_topics, subscribers, live,
                   is_running, threads, status_thread, stop_pc, join_from, ret,
                   tenths, ts_topic, last_send_time, last_sent_data_hash, ts_fail,
                   ts_out>>

\* One pass of the polling loop, first half: the sleep has ended, the clock
\* is read and, unless the pass is throttled, the cache is.
TopicPollGet ==
    /\ ts_pc = "loop"
    /\ IF Throttled(WallClock, last_send_time, min_interval)
       THEN /\ ts_pass' = "throttled"
            /\ UNCHANGED <<msg_cache, stale_reads, ts_pc, ts_current_time, ts_cached>>
       ELSE /\ LET r == GetTopicData(msg_cache, DOMAIN topics, ts_topic, PluginClock)
               IN /\ msg_cache' = r.cache
                  /\ stale_reads' = IF r.stale THEN stale_reads \cup {ts_topic}
                                    ELSE stale_reads
                  /\ ts_cached' = r.result
            /\ ts_current_time' = WallClock
            /\ ts_pass' = "reading"
            /\ ts_pc' = "polled"
    /\ UNCHANGED <<logVars, lockVars, appVars, now, topics, static_topics, subscribers, live,
                   is_running, threads, status_thread, stop_pc, join_from, ret,
                   tenths, ts_topic, last_send_time, last_sent_data_hash, ts_fail,
                   ts_out>>

\* The poll with the value sent whether or not its hash has changed.
PollDecisionResendsAlways(cached, available, last_hash) ==
    IF cached # None
    THEN LET data == TheValue(cached).data
         IN [send |-> TRUE, data |-> Some(data), available |-> available,
             hash |-> Some(HashOf(data))]
    ELSE IF ~available /\ last_hash # Some(UnavailableSent)
    THEN [send |-> TRUE, data |-> None, available |-> FALSE,
          hash |-> Some(UnavailableSent)]
    ELSE NoSend

\* The poll taking "unavailable sent" for a hash that matches every value.
PollDecisionSilentAfterUnavailable(cached, available, last_hash) ==
    IF cached # None
    THEN LET data == TheValue(cached).data
             data_hash == Some(HashOf(data))
         IN IF (data_hash # last_hash /\ last_hash # Some(UnavailableSent)) \/ ~available
            THEN [send |-> TRUE, data |-> Some(data), available |-> available,
                  hash |-> data_hash]
            ELSE NoSend
    ELSE IF ~available /\ last_hash # Some(UnavailableSent)
    THEN [send |-> TRUE, data |-> None, available |-> FALSE,
          hash |-> Some(UnavailableSent)]
    ELSE NoSend

\* _poll_and_send_single_topic_data after the throttle: what is sent, and
\* the hash returned with it.
PollDecision(cached, available, last_hash) ==
    IF cached # None
    THEN LET data == TheValue(cached).data
             data_hash == Some(HashOf(data))
         IN IF data_hash # last_hash \/ ~available
            THEN [send |-> TRUE, data |-> Some(data), available |-> available,
                  hash |-> data_hash]
            ELSE NoSend
    ELSE IF ~available
    THEN IF last_hash = None \/ last_hash # Some(UnavailableSent)
         THEN [send |-> TRUE, data |-> None, available |-> FALSE,
               hash |-> Some(UnavailableSent)]
         ELSE NoSend
    ELSE NoSend

\* One pass of the polling loop, second half: is_topic_available, the send
\* if there is one, and the loop's `if not connection_alive: return`, which
\* comes before the loop stores the returned time and hash.
TopicPollSend(send_ok) ==
    /\ ts_pc = "polled"
    /\ LET a == IsTopicAvailable(msg_cache, DOMAIN topics, DOMAIN static_topics,
                                 ts_topic, PluginClock)
           d == PollDecision(ts_cached, a.result, last_sent_data_hash)
       IN /\ msg_cache' = a.cache
          /\ IF d.send
             THEN /\ ts_out' = Attempt(d.data, d.available, ts_current_time, send_ok)
                  /\ ts_fail' = (ts_fail \/ ~send_ok)
                  /\ ts_pass' = "sent"
                  /\ IF send_ok
                     THEN /\ last_send_time' = ts_current_time
                          /\ last_sent_data_hash' = d.hash
                          /\ ts_pc' = "loop"
                     ELSE /\ ts_pc' = "closed"
                          /\ UNCHANGED <<last_send_time, last_sent_data_hash>>
             ELSE /\ send_ok
                  /\ ts_pc' = "loop"
                  /\ ts_pass' = "silent"
                  /\ UNCHANGED <<ts_out, ts_fail, last_send_time, last_sent_data_hash>>
    /\ ts_cached' = None
    /\ ts_current_time' = 0
    /\ UNCHANGED <<logVars, lockVars, appVars, now, topics, static_topics, subscribers, live,
                   is_running, threads, status_thread, stop_pc, join_from,
                   stale_reads, ret, tenths, ts_topic>>

\* The agent's log endpoint under requests with any cursor, while the log is
\* written, cut and removed.
NextAgent ==
    \/ AppendLog
    \/ \E k \in 0..MaxBytes : TruncateLog(k)
    \/ RemoveLog
    \/ \E c \in (0 - 1)..(MaxBytes + 1) : AgentCursorStat(c)
    \/ AgentCursorRead
    \/ AgentTailRun(INITIAL_LOG_TAIL)
    \/ AgentTailStat

\* Any step of the topic session.
TopicSessionStep ==
    \/ TopicReject
    \/ TopicConnectGet
    \/ \E s \in BOOLEAN : TopicConnectSend(s)
    \/ TopicPollGet
    \/ \E s \in BOOLEAN : TopicPollSend(s)

NextLog ==
    \/ AppendLog
    \/ \E k \in 0..MaxBytes : TruncateLog(k)
    \/ RemoveLog
    \/ \E f, s \in BOOLEAN : WsInitialTail(f, s)
    \/ \E s \in BOOLEAN : WsInitialStat(s)
    \/ \E f \in BOOLEAN : WsRefresh(f)
    \/ \E ch, u, lu, f, s \in BOOLEAN : WsPoll(ch, u, lu, f, s)

ReadNames == Configured \cup {Unconfigured}

NextCache ==
    \/ Tick
    \/ \E F \in SUBSET Configured : LifespanStart(F)
    \/ \E t \in TopicNames, m \in Msgs : Callback(t, m)
    \/ \E t \in ReadNames : GetTopicDataCall(t)
    \/ \E t \in ReadNames : IsTopicAvailableCall(t)
    \/ GetAllTopicsStatusCall
    \/ \E t \in TopicNames : ClearTopicCache(t)
    \/ ClearAllCache
    \/ \E i \in ThreadIds : StatusThreadHead(i)
    \/ \E i \in ThreadIds : StatusThreadWake(i)

NextLife ==
    \/ Tick
    \/ \E F \in SUBSET Configured : Start(F)
    \/ StopBegin
    \/ \E R \in SUBSET subscribers : \E K \in SUBSET R : StopCleanup(R, K)
    \/ StopClear
    \/ \E i \in ThreadIds : StatusThreadHead(i)
    \/ \E i \in ThreadIds : StatusThreadWake(i)

\* The plugin from start-up to shutdown: started once, fed by callbacks
\* while its subscriptions deliver, stopped at any time.
NextStop ==
    \/ Tick
    \/ \E F \in SUBSET Configured : LifespanStart(F)
    \/ \E t \in TopicNames : Callback(t, [data |-> 1, hidden |-> 0])
    \/ StopBegin
    \/ \E R \in SUBSET subscribers : \E K \in SUBSET R : StopCleanup(R, K)
    \/ StopClear
    \/ \E i \in ThreadIds : StatusThreadHead(i)
    \/ \E i \in ThreadIds : StatusThreadWake(i)

\* Every operation that touches the cache: the callbacks, the three reads,
\* the two clears, the status thread and stop().
NextEntries ==
    \/ Tick
    \/ LifespanStart({})
    \/ \E t \in TopicNames : Callback(t, [data |-> 1, hidden |-> 0])
    \/ \E t \in Configured : GetTopicDataCall(t)
    \/ \E t \in Configured : IsTopicAvailableCall(t)
    \/ GetAllTopicsStatusCall
    \/ \E t \in TopicNames : ClearTopicCache(t)
    \/ ClearAllCache
    \/ StopBegin
    \/ \E K \in {{}, subscribers} : StopCleanup(K, K)
    \/ StopClear
    \/ \E i \in ThreadIds : StatusThreadHead(i)
    \/ \E i \in ThreadIds : StatusThreadWake(i)

\* The plugin started and stopped at any time, some subscriptions failing at
\* a start, with its callbacks, reads, status passes and status thread.
NextSubs ==
    \/ Tick
    \/ \E F \in {{}, DOMAIN static_topics, Configured} : Start(F)
    \/ \E t \in DOMAIN topics : Callback(t, [data |-> 1, hidden |-> 0])
    \/ \E t \in DOMAIN topics : GetTopicDataCall(t)
    \/ GetAllTopicsStatusCall
    \/ StopBegin
    \/ StopCleanup({}, {})
    \/ StopClear
    \/ \E i \in ThreadIds : StatusThreadHead(i)
    \/ \E i \in ThreadIds : StatusThreadWake(i)

\* The started plugin with publishers of every message on every topic, a
\* reader and the status thread.
NextPut ==
    \/ Tick
    \/ \E F \in SUBSET Configured : LifespanStart(F)
    \/ \E t \in TopicNames, m \in Msgs : Callback(t, m)
    \/ \E t \in DOMAIN topics : GetTopicDataCall(t)
    \/ \E i \in ThreadIds : StatusThreadHead(i)
    \/ \E i \in ThreadIds : StatusThreadWake(i)

\* The plugin behind the REST topic endpoint.
NextRest ==
    \/ Tick
    \/ \E F \in SUBSET Configured : LifespanStart(F)
    \/ \E t \in TopicNames : Callback(t, [data |-> 1, hidden |-> 0])
    \/ \E t \in ReadNames : RestGetTopicDataCall(t)
    \/ \E i \in ThreadIds : StatusThreadHead(i)
    \/ \E i \in ThreadIds : StatusThreadWake(i)

\* A plugin on which start() is called at any time and stop() never, while
\* its subscriptions deliver and its status thread runs.
NextStarts ==
    \/ Tick
    \/ \E F \in SUBSET Configured : Start(F)
    \/ \E t \in TopicNames : Callback(t, [data |-> 1, hidden |-> 0])
    \/ \E i \in ThreadIds : StatusThreadHead(i)
    \/ \E i \in ThreadIds : StatusThreadWake(i)

\* The process from start-up to shutdown, with a plugin per container.
NextApp ==
    \/ \E o \in {"started", "construct_raised", "start_raised"} : LifespanStartContainer(o)
    \/ LifespanYield
    \/ LifespanShutdown
    \/ \E r \in BOOLEAN : LifespanStopPlugin(r)
    \/ LifespanClear

\* The started plugin with one publisher, a reader and the status thread,
\* over a time long enough for an entry to outlive a sweep period.
NextSweep ==
    \/ TickUntil(MaxSweepTime)
    \/ LifespanStart({})
    \/ \E t \in DOMAIN topics : Callback(t, [data |-> 1, hidden |-> 0])
    \/ \E t \in DOMAIN topics : GetTopicDataCall(t)
    \/ \E i \in ThreadIds : StatusThreadHead(i)
    \/ \E i \in ThreadIds : StatusThreadWake(i)

\* One client on one topic of a plugin that start-up has started, or has
\* failed to start.
NextTopic ==
    \/ WsTick
    \/ \E F \in {{}, Configured} : LifespanStart(F)
    \/ \E m \in {k \in Msgs : k.data <= 2} : TopicCallback(m)
    \/ TopicReject
    \/ TopicConnectGet
    \/ \E s \in BOOLEAN : TopicConnectSend(s)
    \/ TopicPollGet
    \/ \E s \in BOOLEAN : TopicPollSend(s)

\* The threads of a started plugin going through the cache lock.
NextLock ==
    \/ Tick
    \/ LifespanStart({})
    \/ StopBegin
    \/ StopCleanup({}, {})
    \/ \E i \in ThreadIds : StatusThreadHead(i)
    \/ \E p \in LockThreads : \E op \in LockOps(p) :
          LockRequest(p, op, "x", [data |-> 1, hidden |-> 0])
    \/ \E p \in LockThreads : LockAcquire(p)
    \/ \E p \in LockThreads : LockExit(p)

vars == <<compVars, logVars, topicVars, lockVars, appVars>>

\* The plugin behind the API: started at start-up, then read and fed.
InitCache == InitPlugin(ConfigsCache) /\ InitLog /\ InitTopic({Unconfigured}) /\ InitLock /\ InitApp({{}})
SpecCache == InitCache /\ [][NextCache]_vars
\* The plugin's lifecycle: start and stop at any time.
InitLife == InitPlugin(ConfigsLife) /\ InitLog /\ InitTopic({Unconfigured}) /\ InitLock /\ InitApp({{}})
SpecLife == InitLife /\ [][NextLife]_vars
\* Start-up to shutdown.  In SpecStopFair the clock advances and the caller
\* of stop() keeps running; nothing is assumed of the status thread beyond
\* its getting from the loop test into its sleep.
InitStop == InitPlugin(ConfigsCache) /\ InitLog /\ InitTopic({Unconfigured}) /\ InitLock /\ InitApp({{}})
SpecStop == InitStop /\ [][NextStop]_vars
SpecStopFair ==
    /\ SpecStop
    /\ WF_vars(Tick)
    /\ WF_vars(\E R \in SUBSET subscribers : \E K \in SUBSET R : StopCleanup(R, K))
    /\ WF_vars(StopClear)
    /\ WF_vars(\E i \in ThreadIds : StatusThreadHead(i))
\* Start-up to shutdown with a status thread that is scheduled: it gets from
\* the loop test into its sleep, and out of its sleep once the period is over.
SpecJanitorFair ==
    /\ SpecStop
    /\ WF_vars(Tick)
    /\ WF_vars(\E i \in ThreadIds : StatusThreadHead(i))
    /\ WF_vars(\E i \in ThreadIds : StatusThreadWake(i))
\* The cache under every operation that touches it.
InitEntries == InitPlugin(ConfigsCache) /\ InitLog /\ InitTopic({Unconfigured}) /\ InitLock /\ InitApp({{}})
SpecEntries == InitEntries /\ [][NextEntries]_vars

\* The subscriptions under every operation of the plugin.
InitSubs == InitPlugin(ConfigsCache) /\ InitLog /\ InitTopic({Unconfigured}) /\ InitLock /\ InitApp({{}})
SpecSubs == InitSubs /\ [][NextSubs]_vars

\* The agent's log endpoint.
InitAgent == InitPlugin(ConfigsCache) /\ InitLog /\ InitTopic({Unconfigured}) /\ InitLock /\ InitApp({{}})
SpecAgent == InitAgent /\ [][NextAgent]_vars

\* The callbacks.
InitPut == InitPlugin(ConfigsCache) /\ InitLog /\ InitTopic({Unconfigured}) /\ InitLock /\ InitApp({{}})
SpecPut == InitPut /\ [][NextPut]_vars

\* The REST topic endpoint.
InitRest == InitPlugin(ConfigsCache) /\ InitLog /\ InitTopic({Unconfigured}) /\ InitLock /\ InitApp({{}})
SpecRest == InitRest /\ [][NextRest]_vars

\* Calls of start() alone.
InitStarts == InitPlugin(ConfigsCache) /\ InitLog /\ InitTopic({Unconfigured}) /\ InitLock /\ InitApp({{}})
SpecStarts == InitStarts /\ [][NextStarts]_vars

\* The registry of plugins over the life of the process.
InitLifespan == InitPlugin(ConfigsCache) /\ InitLog /\ InitTopic({Unconfigured}) /\ InitLock /\ InitApp(SUBSET Containers)
SpecApp == InitLifespan /\ [][NextApp]_vars

\* The status thread's sweeps.
InitSweep == InitPlugin(ConfigsCache) /\ InitLog /\ InitTopic({Unconfigured}) /\ InitLock /\ InitApp({{}})
SpecSweep == InitSweep /\ [][NextSweep]_vars
\* The cache lock.
InitLocking == InitPlugin(ConfigsCache) /\ InitLog /\ InitTopic({Unconfigured}) /\ InitLock /\ InitApp({{}})
SpecLock == InitLocking /\ [][NextLock]_vars
\* One log-tailing session and the log file it follows.
InitTopicSession == InitPlugin(ConfigsCache) /\ InitLog /\ InitTopic(SessionTopics) /\ InitLock /\ InitApp({{}})
SpecTopic == InitTopicSession /\ [][NextTopic]_vars

InitSession == InitPlugin(ConfigsCache) /\ InitLog /\ InitTopic({Unconfigured}) /\ InitLock /\ InitApp({{}})
SpecLog == InitSession /\ [][NextLog]_vars


\* ===================================================================== claims

\* C1: a get of a dynamic topic that has an entry returns absent and deletes
\* the entry when the entry is older than 3 s at the time of the call, and
\* returns the stored value and leaves the entry alone when it is not.
C1_GetDynamicStaleness ==
    [][\A f \in DOMAIN topics :
          (ret'.op = "get" /\ f \in DOMAIN msg_cache /\ GetTopicDataCall(f)) =>
             IF now - msg_cache[f].received_at > DYNAMIC_TOPIC_STALE_TIME
             THEN ret'.result = None /\ f \notin DOMAIN msg_cache'
             ELSE /\ ret'.result = Some([data |-> [data |-> msg_cache[f].raw_message.data],
                                           received_at |-> msg_cache[f].received_at])
                  /\ f \in DOMAIN msg_cache'
                  /\ msg_cache'[f] = msg_cache[f]]_vars

\* A get of a dynamic topic has just found its entry stale and removed it.
C1_Witness ==
    /\ ret.op = "get"
    /\ ret.topic \in DOMAIN topics
    /\ ret.stale
    /\ ret.result = None
    /\ ret.topic \notin DOMAIN msg_cache

\* C2: the entry of a static topic is removed by no step other than an
\* explicit clear or stop, whatever its age; a get of it returns the value
\* and a status pass reports it available.
C2_StaticNeverStale ==
    [][\A f \in DOMAIN static_topics :
          f \in DOMAIN msg_cache =>
             /\ \/ f \in DOMAIN msg_cache'
                \/ \E t \in TopicNames : ClearTopicCache(t)
                \/ ClearAllCache
                \/ StopClear
             /\ (ret'.op = "get" /\ GetTopicDataCall(f)) =>
                   /\ ret'.result # None
                   /\ TheValue(ret'.result).data = [data |-> msg_cache[f].raw_message.data]
                   /\ TheValue(ret'.result).received_at = msg_cache[f].received_at
             /\ (ret'.op = "is_available" /\ IsTopicAvailableCall(f)) => ret'.result = TRUE
             /\ (ret'.op = "status" /\ GetAllTopicsStatusCall) => ret'.result[f].available]_vars

\* A get returns the value of a static topic that is older than the stale
\* time and has been through a sweep of the status thread.
C2_Witness ==
    /\ ret.op = "get"
    /\ ret.topic \in DOMAIN static_topics
    /\ ret.result # None
    /\ now - TheValue(ret.result).received_at > DYNAMIC_TOPIC_STALE_TIME
    /\ \E i \in ThreadIds :
          /\ threads[i].pc = "sleep"
          /\ threads[i].since >= TheValue(ret.result).received_at + STATUS_CHECK_INTERVAL

\* C3: a status pass returns one record per configured topic, reports
\* available only topics that have a cache entry, and reports not available
\* every topic whose last get found the entry stale with no put since.
C3_StatusAvailability ==
    [][(ret'.op = "status" /\ GetAllTopicsStatusCall) =>
          /\ DOMAIN ret'.result = Configured
          /\ \A f \in Configured :
                ret'.result[f].available =>
                   f \in DOMAIN msg_cache /\ f \in DOMAIN msg_cache'
          /\ \A f \in stale_reads \cap Configured : ~ret'.result[f].available]_vars

\* A status pass after a stale get reports the topic not available.
C3_Witness ==
    /\ ret.op = "status"
    /\ \E f \in stale_reads :
          /\ f \in DOMAIN ret.result
          /\ ~ret.result[f].available
          /\ ret.result[f].received_at = None

\* C4: a start of a stopped plugin tries every configured topic once, and
\* when at least one creation succeeds the start succeeds and the
\* subscribers are exactly the topics whose creation succeeded.
C4_StartIsolatesFailures ==
    [][\A F \in SUBSET Configured :
          (Start(F) /\ ~is_running) =>
             /\ SeqToSet(ret'.attempted) = Configured
             /\ Len(ret'.attempted) = Cardinality(Configured)
             /\ Configured \ F # {} =>
                   /\ ret'.outcome = "started"
                   /\ is_running'
                   /\ subscribers' = Configured \ F]_vars

\* [x, y, z] with y failing: started with x and z subscribed.
C4_Witness ==
    /\ ret.op = "start"
    /\ ret.outcome = "started"
    /\ ret.failed_topics = <<"y">>
    /\ subscribers = {"x", "z"}
    /\ is_running

\* C5: a start of a stopped plugin raises exactly when topics are configured
\* and no subscriber was created; after it raised the plugin is not
\* running, has no subscribers and no status thread was started.
C5_StartFailsIffNothingSubscribed ==
    [][\A F \in SUBSET Configured :
          (Start(F) /\ ~is_running) =>
             /\ ret'.outcome \in {"raised", "started"}
             /\ ret'.outcome = "raised" <=> (Configured # {} /\ Configured \ F = {})
             /\ ret'.outcome = "raised" =>
                   /\ ~is_running'
                   /\ subscribers' = {}
                   /\ threads' = threads
                   /\ status_thread' = status_thread
             /\ ret'.outcome = "started" =>
                   /\ is_running'
                   /\ \E i \in ThreadIds :
                         threads[i].pc = "none" /\ threads'[i].pc = "head"]_vars

\* A start with topics configured has raised.
C5_Witness ==
    /\ ret.op = "start"
    /\ ret.outcome = "raised"
    /\ Configured # {}
    /\ Len(ret.failed_topics) = Cardinality(Configured)
    /\ ~is_running
    /\ subscribers = {}

\* C6: the teardown of stop() calls close() once on every subscriber, also
\* after a close() that raised, and leaves no subscriber.
C6_StopClosesEverySubscriber ==
    [][\A R \in SUBSET subscribers : \A K \in SUBSET R :
          StopCleanup(R, K) =>
             /\ Len(ret'.closed) = Cardinality(subscribers)
             /\ SeqToSet(ret'.closed) = subscribers
             /\ subscribers' = {}]_vars

\* The first close() of a teardown raised and the later ones were made.
C6_Witness ==
    /\ ret.op = "cleanup"
    /\ Len(ret.closed) >= 2
    /\ ret.closed[1] \in ret.raised
    /\ SeqToSet(ret.closed) = ret.live_before
    /\ subscribers = {}

\* C7: while the log is only appended to, no byte is sent that was sent before.
C7_NoByteSentTwice ==
    ~truncated_ever => resent = {}

\* The initial tail and two later bytes were sent, none twice.
C7_Witness ==
    /\ ~truncated_ever
    /\ sent_initial # {}
    /\ Cardinality(sent_updates) >= 2
    /\ resent = {}

\* C8: while the log is only appended to and the connection is open, every
\* byte that was written after the initial fetch returned and that the
\* cursor has passed has been sent.
C8_NoByteDropped ==
    (~truncated_ever /\ ws_pc = "poll") =>
       \A i \in 1..Min(TheValue(cursor), FileSize) :
          log_content[i] \in early_bytes \cup sent_initial \cup sent_updates

\* C9: a poll that finds the file smaller than the cursor sets the cursor to
\* the file size and sends nothing.
C9_TruncationResetsCursor ==
    [][\A ch, u, lu, s \in BOOLEAN :
          (ws_pc = "poll" /\ FileSize < TheValue(cursor) /\ WsPoll(ch, u, lu, TRUE, s)) =>
             /\ cursor' = Some(FileSize)
             /\ sent_updates' = sent_updates
             /\ ws_pc' = "poll"]_vars

\* A poll has found the file cut below the cursor, to a size above 0.
C9_Witness ==
    /\ ws_pc = "poll"
    /\ last_fetch.kind = "poll"
    /\ last_fetch.size > 0
    /\ last_fetch.requested > last_fetch.size
    /\ last_fetch.logs = <<>>
    /\ cursor = Some(last_fetch.size)

\* C10: the cursor of a session decreases only in a step that finds the file
\* smaller than the cursor, and then it becomes the file size.
C10_CursorMonotone ==
    [][(cursor # None /\ cursor' # None /\ TheValue(cursor') < TheValue(cursor)) =>
          /\ FileSize < TheValue(cursor)
          /\ TheValue(cursor') = FileSize]_vars

\* After updates were sent, a poll found the file smaller and the cursor went back.
C10_Witness ==
    /\ last_fetch.kind = "poll"
    /\ sent_updates # {}
    /\ last_fetch.cursor < last_fetch.requested
    /\ cursor = Some(last_fetch.cursor)


\* C16: a poll iteration whose fetch from the agent fails leaves the cursor
\* as it was, sends nothing and does not end the session; the next fetch
\* asks from the same cursor.
C16_FetchErrorKeepsSession ==
    [][\A ch, u, lu, s \in BOOLEAN :
          (ws_pc = "poll" /\ last_fetch'.kind = "failed" /\ WsPoll(ch, u, lu, FALSE, s)) =>
             /\ cursor' = cursor
             /\ sent_updates' = sent_updates
             /\ sent_initial' = sent_initial
             /\ ws_pc' = "poll"]_vars

\* The poll after a failed fetch asked from the cursor of the failed one and
\* its logs were sent.
C16_Witness ==
    /\ ws_pc = "poll"
    /\ last_fetch.kind = "poll"
    /\ last_fetch.retry
    /\ last_fetch.requested > 0
    /\ last_fetch.sent


\* C18: stop() clears the running flag before any subscriber is torn down,
\* tears the subscribers down before it clears the cache, and leaves the
\* cache empty when it returns; a join that timed out or a close() that
\* raised does not keep the later steps from happening.
C18_ShutdownOrder ==
    [][/\ (stop_pc = "idle" /\ stop_pc' # "idle") =>
             /\ ~is_running'
             /\ subscribers' = subscribers
             /\ msg_cache' = msg_cache
       /\ (stop_pc # "idle" /\ subscribers' # subscribers) =>
             /\ ~is_running
             /\ stop_pc = "join" /\ stop_pc' = "clear"
             /\ subscribers' = {}
             /\ msg_cache' = msg_cache
       /\ (stop_pc # "idle" /\ stop_pc' = "idle") =>
             /\ stop_pc = "clear"
             /\ ~is_running
             /\ subscribers = {}
             /\ msg_cache' = EmptyCache]_vars

\* stop() has returned after a join that timed out and a close() that
\* raised, and it emptied a cache that held entries.
C18_Witness ==
    /\ ret.op = "stop"
    /\ ret.outcome = "stopped"
    /\ ret.cleared # {}
    /\ msg_cache = EmptyCache
    /\ StatusThreadAlive
    /\ live # {}
    /\ subscribers = {}

\* C19: a stop() that has begun returns, whether or not the status thread
\* ever leaves its loop.
C19_StopTerminates ==
    (stop_pc # "idle") ~> (stop_pc = "idle")

\* stop() has returned while the status thread was still in its sleep.
C19_Witness ==
    /\ ret.op = "stop"
    /\ ret.outcome = "stopped"
    /\ stop_pc = "idle"
    /\ \E i \in ThreadIds : threads[i].pc = "sleep"


\* Time since the status thread began the sleep it is in (0 at the loop test).
SinceLastSweep ==
    IF StatusThreadAlive /\ threads[TheValue(status_thread)].pc = "sleep"
    THEN now - threads[TheValue(status_thread)].since
    ELSE 0

\* C17 as stated: while the plugin runs no dynamic entry is older than the
\* stale time plus one status-check period.
C17_AgeWithinOnePeriod ==
    is_running =>
       \A f \in DOMAIN topics \cap DOMAIN msg_cache :
          now - msg_cache[f].received_at <= DYNAMIC_TOPIC_STALE_TIME + STATUS_CHECK_INTERVAL

\* C17: while the plugin runs no dynamic entry is older than the stale time
\* plus the time since the status thread last swept (one period, and as
\* much more as the sweep is late), plus the age of a clock value read
\* before the lock was taken.
C17_AgeWithinSweepDelay ==
    is_running =>
       \A f \in DOMAIN topics \cap DOMAIN msg_cache :
          now - msg_cache[f].received_at <=
             DYNAMIC_TOPIC_STALE_TIME + SinceLastSweep + MaxLag

\* A sweep of the running plugin has just evicted a dynamic entry.
C17_Witness ==
    /\ is_running
    /\ ret.op = "sweep"
    /\ ret.stale # {}
    /\ ret.stale \subseteq DOMAIN topics
    /\ ret.stale \cap DOMAIN msg_cache = {}


\* C20: the cache changes only in a step of the thread that holds the lock
\* and is inside its `with` block, and at most one thread is inside a
\* `with self.lock` block at a time.
C20_CacheUnderOneLock ==
    [][/\ msg_cache' # msg_cache =>
             \E p \in LockThreads : lock = Some(p) /\ cs[p].phase = "in"
       /\ Cardinality({p \in LockThreads : cs'[p].phase = "in"}) <= 1
       /\ \A p \in LockThreads : cs'[p].phase = "in" => lock' = Some(p)]_vars

\* The status thread is inside its sweep while a callback and an API call
\* wait for the lock.
C20_Witness ==
    /\ cs["janitor"].phase = "in"
    /\ lock = Some("janitor")
    /\ cs["callback"].phase = "wait"
    /\ cs["api"].phase = "wait"
    /\ DOMAIN msg_cache # {}

\* C11: on one topic connection two sends are never attributed times less
\* than min_interval apart, the send at connect included, so no more than
\* ROS2_TOPIC_MAX_SEND_RATE messages fall into one second; a pass of the
\* polling loop that begins less than min_interval after the last delivered
\* send sends nothing, reads nothing and leaves the throttling state as it was.
C11_SendsSpacedApart ==
    [][ /\ (ts_out'.n # ts_out.n /\ ts_out.ok)
            => ts_out'.at - ts_out.at >= min_interval
        /\ (ts_pc = "loop" /\ ts_out.ok /\ WallClock - ts_out.at < min_interval
             /\ TopicPollGet)
            => /\ ts_pc' = "loop"
               /\ UNCHANGED <<last_send_time, last_sent_data_hash, ts_out, msg_cache>>
      ]_vars

\* A pass was throttled while a value other than the one last delivered was
\* waiting in the cache.
C11_Witness ==
    /\ ts_pc = "loop"
    /\ ts_pass = "throttled"
    /\ ts_out.ok
    /\ WallClock - ts_out.at < min_interval
    /\ ts_topic \in DOMAIN msg_cache
    /\ ts_out.data # None
    /\ ts_out.data # Some(ConvertMessageToDict(msg_cache[ts_topic].raw_message))

C14_UnavailableSentOnce ==
    [][ /\ (ts_pc = "polled" /\ \E s \in BOOLEAN : TopicPollSend(s))
            => LET available == IsTopicAvailable(msg_cache, DOMAIN topics,
                                   DOMAIN static_topics, ts_topic, PluginClock).result
               IN /\ (~available /\ last_sent_data_hash # Some(UnavailableSent))
                     => /\ ts_out'.n # ts_out.n
                        /\ ~ts_out'.available
                        /\ ts_out'.ok => last_sent_data_hash' = Some(UnavailableSent)
                  /\ (~available /\ last_sent_data_hash = Some(UnavailableSent))
                     => ts_out' = ts_out
        /\ (ts_out'.n # ts_out.n /\ ~ts_out'.available)
            => ~(ts_out.ok /\ ~ts_out.available)
      ]_vars

\* C15: once a send on a topic connection has failed, the session is over:
\* no pass of the polling loop attempts a further send on the connection.
C15_NoSendAfterFailedSend ==
    [][ ts_fail => ts_out'.n = ts_out.n ]_vars

\* C21: for every topic name, configured or not, is_topic_available answers
\* True exactly when get_topic_data called in the same state at the same time
\* returns a value, and the two leave the same cache behind: both delete a
\* stale dynamic entry and nothing else.
C21_AvailableIffGetReturns ==
    [][\A f \in ReadNames :
          /\ (ret'.op = "is_available" /\ IsTopicAvailableCall(f)) =>
                LET g == GetTopicData(msg_cache, DOMAIN topics, f, now)
                IN /\ ret'.result = (g.result # None)
                   /\ msg_cache' = g.cache
          /\ (ret'.op = "get" /\ GetTopicDataCall(f)) =>
                LET a == IsTopicAvailable(msg_cache, DOMAIN topics, DOMAIN static_topics,
                                          f, now)
                IN /\ (ret'.result # None) = a.result
                   /\ msg_cache' = a.cache]_vars

\* is_topic_available has just found the entry of a dynamic topic stale and
\* removed it, while a static topic keeps an entry of at least that age.
C21_Witness ==
    /\ ret.op = "is_available"
    /\ ret.stale
    /\ ~ret.result
    /\ ret.topic \in DOMAIN topics
    /\ ret.topic \notin DOMAIN msg_cache
    /\ \E z \in DOMAIN static_topics \cap DOMAIN msg_cache :
          now - msg_cache[z].received_at > DYNAMIC_TOPIC_STALE_TIME

\* C22: every message delivered to the callback of a topic is stored as it
\* is: after the callback the cache holds one entry for the topic, made of
\* that message and the time the callback read, whatever entry the topic had
\* before, and the entries of all other topics are as they were.
C22_CallbackStoresMessage ==
    [][(ret' = NoRet /\ now' = now /\ threads' = threads) =>
          \A f \in live, m \in Msgs :
             Callback(f, m) =>
                /\ DOMAIN msg_cache' = DOMAIN msg_cache \cup {f}
                /\ msg_cache'[f].raw_message = m
                /\ msg_cache'[f].received_at \in RecentTimes(T0)
                /\ \A g \in DOMAIN msg_cache \ {f} : msg_cache'[g] = msg_cache[g]]_vars

\* Both topics have an entry, and the dynamic one holds a message stored just
\* now, more than the stale time after the static one's and with other data.
C22_Witness ==
    /\ ret = NoRet
    /\ DOMAIN msg_cache = Configured
    /\ \E f \in DOMAIN topics, z \in DOMAIN static_topics :
          /\ msg_cache[f].received_at > msg_cache[z].received_at + DYNAMIC_TOPIC_STALE_TIME
          /\ msg_cache[f].raw_message.data # msg_cache[z].raw_message.data
          /\ now = msg_cache[f].received_at

\* C23: a sweep of the status thread of a running plugin deletes every entry
\* of a dynamic topic that is older than the stale time at the clock value the
\* sweep read, deletes or changes no entry of a static topic and no entry of a
\* dynamic topic within the stale time, and then warns about exactly the
\* dynamic topics that have no entry once the deletions are done.
C23_SweepEvictsAndWarns ==
    [][\A i \in ThreadIds :
          (ret'.op = "sweep" /\ is_running /\ StatusThreadWake(i)) =>
             /\ \A k \in DOMAIN msg_cache :
                   IF k \in DOMAIN topics
                      /\ ret'.at - msg_cache[k].received_at > DYNAMIC_TOPIC_STALE_TIME
                   THEN k \notin DOMAIN msg_cache' /\ k \in ret'.stale
                   ELSE k \in DOMAIN msg_cache' /\ msg_cache'[k] = msg_cache[k]
             /\ DOMAIN msg_cache' \subseteq DOMAIN msg_cache
             /\ ret'.warned = DOMAIN topics \ DOMAIN msg_cache']_vars

\* A sweep has just deleted a stale dynamic entry and warned about its topic,
\* and has left alone a static entry that is older still.
C23_Witness ==
    /\ ret.op = "sweep"
    /\ ret.stale # {}
    /\ ret.stale \subseteq ret.warned
    /\ ret.stale \cap DOMAIN msg_cache = {}
    /\ \E z \in DOMAIN static_topics \cap DOMAIN msg_cache :
          ret.at - msg_cache[z].received_at > DYNAMIC_TOPIC_STALE_TIME

C25_StatusSweepsLikeGet ==
    [][(ret'.op = "status" /\ GetAllTopicsStatusCall) =>
          \A f \in DOMAIN topics :
             LET g == GetTopicData(msg_cache, DOMAIN topics, f, ret'.at)
             IN /\ ret'.result[f].available = (g.result # None)
                /\ (f \in DOMAIN msg_cache') = (f \in DOMAIN g.cache)
                /\ f \in DOMAIN msg_cache' => msg_cache'[f] = msg_cache[f]]_vars

\* A status pass has just found the entry of a dynamic topic stale: it
\* reports the time of the entry, reports the topic not available, and the
\* entry is gone.
C25_Witness ==
    /\ ret.op = "status"
    /\ \E f \in DOMAIN topics :
          /\ ~ret.result[f].available
          /\ ret.result[f].received_at # None
          /\ ret.at - TheValue(ret.result[f].received_at) > DYNAMIC_TOPIC_STALE_TIME
          /\ f \notin DOMAIN msg_cache

\* C26 as stated: an entry exists exactly when a value has been received for
\* the topic and, for a dynamic topic, not been evicted as stale.  In step
\* form: an entry that is there stays until it is a dynamic topic's entry
\* evicted as stale.
C26_EntryLeavesOnlyByEviction ==
    [][\A f \in DOMAIN msg_cache \ DOMAIN msg_cache' :
          /\ f \in DOMAIN topics
          /\ now - msg_cache[f].received_at > DYNAMIC_TOPIC_STALE_TIME]_vars

\* C26, amended: an entry exists exactly when a value has been received for
\* the topic since its entry was last cleared (clear_topic_cache,
\* clear_all_cache, stop) and, for a dynamic topic, the last value has not
\* been evicted as stale.  In step form: an entry appears only in a callback
\* of its topic, every callback leaves an entry of its topic, and an entry
\* disappears only in a stale eviction of a dynamic topic by a read, a status
\* pass or a sweep, or in one of the clears.
C26_EntryIffReceivedAndKept ==
    [][\A f \in TopicNames :
          /\ (f \in DOMAIN msg_cache' /\ f \notin DOMAIN msg_cache) =>
                \E m \in Msgs : Callback(f, m)
          /\ (\E m \in Msgs : ret' = NoRet /\ Callback(f, m)) => f \in DOMAIN msg_cache'
          /\ (f \in DOMAIN msg_cache /\ f \notin DOMAIN msg_cache') =>
                \/ /\ f \in DOMAIN topics
                   /\ now - msg_cache[f].received_at > DYNAMIC_TOPIC_STALE_TIME
                   /\ ret'.op \in {"get", "is_available", "status", "sweep"}
                \/ ClearTopicCache(f)
                \/ ClearAllCache
                \/ StopClear]_vars

\* stop() has just cleared the entry of a static topic: a value was received
\* for it, nothing evicts a static entry, and no entry exists.
C26_Witness ==
    /\ ret.op = "stop"
    /\ ret.outcome = "stopped"
    /\ ret.cleared \cap DOMAIN static_topics # {}
    /\ DOMAIN msg_cache = {}

\* C27: the set of subscriptions changes only in a start() that found the
\* plugin stopped, which adds to it, and in the cleanup of stop() or of a
\* failed start, which empties it; a callback, a read, a status pass or a
\* step of the status thread leaves it as it is, so a topic whose
\* subscription failed at a start stays unsubscribed until a later start.
C27_SubscribersChangeOnlyAtStartAndStop ==
    [][subscribers' # subscribers =>
          \/ /\ ret'.op = "start"
             /\ ~is_running
             /\ stop_pc = "idle"
             /\ subscribers \subseteq subscribers'
          \/ /\ ret'.op \in {"start", "cleanup"}
             /\ subscribers' = {}]_vars

\* A running plugin one of whose subscriptions failed at the start has since
\* taken a callback and made a sweep, and the topic is still unsubscribed.
C27_Witness ==
    /\ is_running
    /\ ret.op = "sweep"
    /\ subscribers # {}
    /\ Configured \ subscribers # {}
    /\ \E f \in subscribers : f \in DOMAIN msg_cache

\* C28 as stated: no step of a topic session creates, overwrites or removes
\* a cache entry.
C28_SessionLeavesCache ==
    [][(UNCHANGED <<now, tenths>> /\ TopicSessionStep) => msg_cache' = msg_cache]_vars

\* C28, amended: no step of a topic session creates or overwrites a cache
\* entry, and the only entry such a step removes is the entry of its own
\* topic, a dynamic topic, found stale by the read the step makes.
C28_SessionOnlyEvictsStale ==
    [][(UNCHANGED <<now, tenths>> /\ TopicSessionStep) =>
          /\ DOMAIN msg_cache' \subseteq DOMAIN msg_cache
          /\ \A f \in DOMAIN msg_cache :
                IF f \in DOMAIN msg_cache'
                THEN msg_cache'[f] = msg_cache[f]
                ELSE /\ f = ts_topic
                     /\ f \in DOMAIN topics
                     /\ PluginClock - msg_cache[f].received_at > DYNAMIC_TOPIC_STALE_TIME]_vars

\* A session that has sent a value of its dynamic topic has, in the pass it
\* is in, read the cache and found the entry stale: the entry is gone.
C28_Witness ==
    /\ ts_pc = "polled"
    /\ ts_topic \in DOMAIN topics
    /\ ts_topic \in stale_reads
    /\ ts_topic \notin DOMAIN msg_cache
    /\ ts_cached = None
    /\ last_sent_data_hash \notin {None, Some(UnavailableSent)}

C31_EvictedEntryIsTrulyStale ==
    [][ret'.op \in {"get", "is_available", "status", "sweep"} =>
          \A f \in (DOMAIN msg_cache \ DOMAIN msg_cache') \cap DOMAIN topics :
             now' - msg_cache[f].received_at > DYNAMIC_TOPIC_STALE_TIME]_vars

\* A sweep working with a clock value read before the present second has
\* deleted an entry.
C31_Witness ==
    /\ ret.op = "sweep"
    /\ ret.at < now
    /\ ret.stale # {}
    /\ ret.stale \cap DOMAIN msg_cache = {}

\* C32: at any time at most one status thread of the plugin is alive,
\* whatever the sequence of start() and stop() calls.
C32_AtMostOneLoopAlive ==
    Cardinality({i \in ThreadIds : threads[i].pc # "none"}) <= 1

\* C33: once stop() has returned, and until the plugin is started again, the
\* cache is empty: no callback stores a message after the stop, even when
\* the close() of a subscription raised.
C33_CacheEmptyAfterStop ==
    (status_thread # None /\ ~is_running /\ stop_pc = "idle") => DOMAIN msg_cache = {}

\* C34: every message the topic session sends is consistent with itself: it
\* says available = true exactly when it carries a value.
C34_MessageSelfConsistent ==
    [][ts_out'.n # ts_out.n => (ts_out'.available <=> ts_out'.data # None)]_vars

\* C35: for every configured topic, dynamic or static, the REST topic
\* endpoint of a registered plugin answers with a response that carries the
\* message type configured for the topic, never with an error.
C35_RestAnswersEveryConfiguredTopic ==
    (ret.op = "rest" /\ ret.status # 503 /\ ret.topic \in Configured) =>
       /\ ret.status = 200
       /\ ret.msg_type = (IF ret.topic \in DOMAIN topics THEN topics[ret.topic]
                          ELSE static_topics[ret.topic])

\* C36: no record of a status dict returned by get_all_topics_status
\* carries a negative seconds_since_last_message, whatever callbacks ran
\* between its clock read and its pass over the cache.
C36_SecondsSinceNeverNegative ==
    ret.op = "status" =>
       \A p \in DOMAIN ret.result :
          \A s \in ret.result[p].seconds_since_last_message : s >= 0

\* C37: when the last message delivered on a topic session said the topic
\* is unavailable, a poll that reads a value and finds the topic available
\* sends that value as an available update, whatever hash was sent before.
C37_AvailableAgainIsSent ==
    [][(/\ ts_pc = "polled"
        /\ ts_cached # None
        /\ ts_out.ok
        /\ ~ts_out.available
        /\ ts_pass' \in {"sent", "silent"}
        /\ IsTopicAvailable(msg_cache, DOMAIN topics, DOMAIN static_topics,
                            ts_topic, PluginClock).result)
          => /\ ts_out'.n # ts_out.n
             /\ ts_out'.available
             /\ ts_out'.data = Some(TheValue(ts_cached).data)]_vars

\* C38: a start() of a running plugin returns at once, leaving the
\* subscribers, the subscriptions that deliver, the status threads and the
\* cache as they are; and a start() of a plugin that is not running creates
\* a subscription only for topics that have none, so that calls of start()
\* never leave a topic with two subscriptions.
C38_StartWhileRunningIsNoOp ==
    [][\A F \in SUBSET Configured :
          Start(F) =>
             IF is_running
             THEN /\ ret'.outcome = "already_running"
                  /\ UNCHANGED <<subscribers, live, threads, status_thread, msg_cache>>
             ELSE (SeqToSet(ret'.attempted) \ SeqToSet(ret'.failed_topics))
                     \cap (live \cup subscribers) = {}]_vars

\* start() has returned from a running plugin that holds two subscriptions,
\* a cache entry and one status thread.
C38_Witness ==
    /\ ret.op = "start"
    /\ ret.outcome = "already_running"
    /\ is_running
    /\ subscribers = {"x", "z"}
    /\ live = subscribers
    /\ "x" \in DOMAIN msg_cache
    /\ Cardinality({i \in ThreadIds : threads[i].pc # "none"}) = 1

====
